---- MODULE Spec2Model ----
(***************************************************************************)
(* cargo-monorepo: the release orchestration engine.                       *)
(*                                                                         *)
(*   - the workspace dependency sort (cargo.rs) and the publish filter     *)
(*     (release/context.rs),                                               *)
(*   - the version validator (release/step/version.rs),                    *)
(*   - the step pipeline and its steps (release/mod.rs, release/step).     *)
(***************************************************************************)
EXTENDS Integers, Sequences, FiniteSets, TLC

VARIABLES
    pc,        \* position of the run: "fn", "start", "running", "done", "failed"
    ctx,       \* the ReleaseContext shared by the steps
    steps,     \* ReleaseExecutor.steps: the steps still to run
    effects,   \* the calls made to the external collaborators, in order
    log,       \* the messages of the executor: the steps started, passed, failed
    twin,      \* the same run with the opposite --confirm flag, fed the same answers
    ret        \* the value returned by the last function applied on its own

vars == <<pc, ctx, steps, effects, log, twin, ret>>

---------------------------------------------------------------------------
(* Option<T> and anyhow::Result<T> *)

None == [some |-> FALSE]
Some(v) == [some |-> TRUE, val |-> v]

Ok(v) == [ok |-> TRUE, val |-> v]
Err(e) == [ok |-> FALSE, err |-> e]

---------------------------------------------------------------------------
(* Bounds *)

MaxPkgs == 3
MaxVer == 2
MaxDeviations == 2
MaxLines == 4

Ids == 1..MaxPkgs
Versions == 1..MaxVer

PkgNames == <<"root", "lib", "util", "core", "extra", "more">>
Name(i) == PkgNames[i]

CRATES_IO_REGISTRY_NAME == "crates-io"

default_publish_interval_seconds == 30

---------------------------------------------------------------------------
(* Sequence helpers *)

Contains(s, x) == \E i \in DOMAIN s : s[i] = x

Range(s) == {s[i] : i \in DOMAIN s}

\* Vec::iter().position(): index of the first element equal to x, 0 when absent
Position(s, x) == IF Contains(s, x) THEN CHOOSE i \in DOMAIN s : s[i] = x /\ \A j \in 1..(i - 1) : s[j] # x ELSE 0

Reverse(s) == [i \in DOMAIN s |-> s[Len(s) + 1 - i]]

RECURSIVE Ascending(_)
Ascending(S) == IF S = {} THEN <<>> ELSE LET m == CHOOSE x \in S : \A y \in S : x <= y IN <<m>> \o Ascending(S \ {m})

NoDuplicates(s) == \A i, j \in DOMAIN s : s[i] = s[j] => i = j

---------------------------------------------------------------------------
(* cargo.rs: sort_workspace *)

\* lines 9-23: the members that have a resolve node, each with its dependencies
dep_tree_of(ws_meta) ==
    LET nodes == ws_meta.resolve.val.nodes
        ids == {nodes[i].id : i \in DOMAIN nodes} \cap Range(ws_meta.workspace_members)
    IN [id \in ids |-> (CHOOSE n \in Range(nodes) : n.id = id).dependencies]

RECURSIVE sort_workspace_inner(_, _, _)
RECURSIVE visit_deps(_, _, _)

\* a plausible slip: the package is pushed before its dependencies are visited
sort_workspace_inner_preorder(dep_tree, pkg_id, acc) ==
    IF pkg_id \in acc.processed THEN acc
    ELSE LET marked == [processed |-> acc.processed \cup {pkg_id}, sorted |-> Append(acc.sorted, pkg_id)]
             deps == SelectSeq(dep_tree[pkg_id], LAMBDA d : d \in DOMAIN dep_tree)
         IN visit_deps(dep_tree, deps, marked)

\* a plausible slip: the dependencies are walked from the last declared to the first
sort_workspace_inner_last_dep_first(dep_tree, pkg_id, acc) ==
    IF pkg_id \in acc.processed THEN acc
    ELSE LET marked == [acc EXCEPT !.processed = @ \cup {pkg_id}]
             deps == SelectSeq(dep_tree[pkg_id], LAMBDA d : d \in DOMAIN dep_tree)
             after == visit_deps(dep_tree, Reverse(deps), marked)
         IN [after EXCEPT !.sorted = Append(@, pkg_id)]

\* a plausible slip: a package met again is pushed again
sort_workspace_inner_push_again(dep_tree, pkg_id, acc) ==
    IF pkg_id \in acc.processed THEN [acc EXCEPT !.sorted = Append(@, pkg_id)]
    ELSE LET marked == [acc EXCEPT !.processed = @ \cup {pkg_id}]
             deps == SelectSeq(dep_tree[pkg_id], LAMBDA d : d \in DOMAIN dep_tree)
             after == visit_deps(dep_tree, deps, marked)
         IN [after EXCEPT !.sorted = Append(@, pkg_id)]

sort_workspace_inner(dep_tree, pkg_id, acc) ==
    IF pkg_id \in acc.processed THEN acc
    ELSE LET marked == [acc EXCEPT !.processed = @ \cup {pkg_id}]
             deps == SelectSeq(dep_tree[pkg_id], LAMBDA d : d \in DOMAIN dep_tree)
             after == visit_deps(dep_tree, deps, marked)
         IN [after EXCEPT !.sorted = Append(@, pkg_id)]

\* the for loops of lines 27-29 and 47-52: one call per element, in order
visit_deps(dep_tree, ids, acc) ==
    IF ids = <<>> THEN acc
    ELSE visit_deps(dep_tree, Tail(ids), sort_workspace_inner(dep_tree, Head(ids), acc))

sort_workspace(ws_meta) ==
    IF ~ws_meta.resolve.some THEN Err("Failed to resolve workspace deps")
    ELSE LET acc == visit_deps(dep_tree_of(ws_meta), ws_meta.workspace_members, [processed |-> {}, sorted |-> <<>>])
         IN Ok(acc.sorted)

---------------------------------------------------------------------------
(* template.rs: TextTemplate *)

\* A template is the sequence of its parts, a part a literal or a {{field}}
Lit(str) == [field |-> "", lit |-> str]
Field(name) == [field |-> name, lit |-> ""]

\* A rendered part: a string, or the lines of the changelog
Rendered(str, lines) == [str |-> str, lines |-> lines]

TemplateFields == {"root_crate", "version", "changelog"}

\* handlebars in strict mode: a field the context does not have is an error, a
\* field that is null (changelog: None) renders as the empty string
render_part(part, context) ==
    CASE part.field = "" -> Rendered(part.lit, <<>>)
      [] part.field = "root_crate" -> Rendered(context.root_crate, <<>>)
      [] part.field = "version" -> Rendered(ToString(context.version), <<>>)
      [] part.field = "changelog" -> Rendered("", IF context.changelog.some THEN context.changelog.val ELSE <<>>)
      [] OTHER -> Rendered("", <<>>)

TextTemplate_render(template, context) ==
    IF \E i \in DOMAIN template : template[i].field # "" /\ template[i].field \notin TemplateFields
    THEN Err("Failed to render template")
    ELSE Ok([i \in DOMAIN template |-> render_part(template[i], context)])

default_tag_name_template == <<Lit("v"), Field("version")>>

default_release_page_title_template == <<Field("root_crate"), Lit(" v"), Field("version")>>

default_release_page_body_template == <<Field("changelog")>>

---------------------------------------------------------------------------
(* config.rs: Config *)

\* a plausible slip: the test of a custom registry with the version-raise check is missing
Config_validate_release_any_registry(config) ==
    IF ~config.release.some THEN Ok("unit")
    ELSE LET release == config.release.val
         IN IF ~release.github.some THEN Ok("unit")
            ELSE IF ~config.github.some
                 THEN Err("github.repo should be specified to be able to use release.github")
            ELSE IF release.github.val.release_page_upload_artifacts /\ ~config.artifacts.some
                 THEN Err("artifacts should be specified when release.github.release_page_upload_artifacts is set to true")
            ELSE IF release.github.val.create_release_page /\ ~release.github.val.create_tag
                 THEN Err("github.create_tag should be enabled when github.create_release_page is required")
            ELSE Ok("unit")

\* a plausible slip: a release page is accepted without the tag step
Config_validate_release_page_without_tag(config) ==
    IF ~config.release.some THEN Ok("unit")
    ELSE LET release == config.release.val
         IN IF release.registry.some /\ release.check_version_raised
            THEN Err("Querying last released version is not yet supported for custom registries")
            ELSE IF ~release.github.some THEN Ok("unit")
            ELSE IF ~config.github.some
                 THEN Err("github.repo should be specified to be able to use release.github")
            ELSE IF release.github.val.release_page_upload_artifacts /\ ~config.artifacts.some
                 THEN Err("artifacts should be specified when release.github.release_page_upload_artifacts is set to true")
            ELSE Ok("unit")

Config_validate_release(config) ==
    IF ~config.release.some THEN Ok("unit")
    ELSE LET release == config.release.val
         IN IF release.registry.some /\ release.check_version_raised
            THEN Err("Querying last released version is not yet supported for custom registries")
            ELSE IF ~release.github.some THEN Ok("unit")
            ELSE IF ~config.github.some
                 THEN Err("github.repo should be specified to be able to use release.github")
            ELSE IF release.github.val.release_page_upload_artifacts /\ ~config.artifacts.some
                 THEN Err("artifacts should be specified when release.github.release_page_upload_artifacts is set to true")
            ELSE IF release.github.val.create_release_page /\ ~release.github.val.create_tag
                 THEN Err("github.create_tag should be enabled when github.create_release_page is required")
            ELSE Ok("unit")

Config_validate_changelog(config) ==
    IF ~config.changelog.some THEN Ok("unit")
    ELSE IF config.changelog.val.start_marker_template.some # config.changelog.val.end_marker_template.some
         THEN Err("Both changelog_start_pattern and changelog_end_pattern should be specified")
    ELSE Ok("unit")

Config_validate(config) ==
    IF ~Config_validate_release(config).ok THEN Config_validate_release(config)
    ELSE Config_validate_changelog(config)

---------------------------------------------------------------------------
(* release/context.rs: ReleaseContext *)

ReleaseContext_new(config, dry_run, nopublish) ==
    [dry_run |-> dry_run,
     nopublish |-> nopublish,
     config |-> config,
     crates_io_token |-> None,
     github_token |-> None,
     current_commit |-> None,
     metadata |-> None,
     version |-> None,
     prev_version |-> None,
     changelog |-> None,
     artifacts |-> None,
     github_release_tag |-> None,
     github_client |-> None]

is_dry_run(c) == c.dry_run

is_nopublish(c) == c.nopublish

root_crate_name(c) == c.config.workspace.root_crate

github_config(c) ==
    IF c.config.github.some THEN Ok(c.config.github.val)
    ELSE Err("github section is missing from the config")

release_config(c) ==
    IF c.config.release.some THEN Ok(c.config.release.val)
    ELSE Err("release section is missing from the config")

release_github_config(c) ==
    IF ~release_config(c).ok THEN release_config(c)
    ELSE IF release_config(c).val.github.some THEN Ok(release_config(c).val.github.val)
    ELSE Err("release section is missing from the config")

artifacts_config(c) ==
    IF c.config.artifacts.some THEN Ok(c.config.artifacts.val)
    ELSE Err("artifacts section is missing from the config")

changelog_config(c) ==
    IF c.config.changelog.some THEN Ok(c.config.changelog.val)
    ELSE Err("changelog section is missing from the config")

current_commit(c) ==
    IF c.current_commit.some THEN Ok(c.current_commit.val)
    ELSE Err("Current commit is queried yet")

cargo_metadata(c) ==
    IF c.metadata.some THEN Ok(c.metadata.val)
    ELSE Err("Cargo metadata is not yet queried")

workspace_package_names(c) ==
    IF ~cargo_metadata(c).ok THEN cargo_metadata(c)
    ELSE LET metadata == cargo_metadata(c).val
             members == SelectSeq(metadata.packages, LAMBDA p : Contains(metadata.workspace_members, p.id))
         IN Ok([i \in DOMAIN members |-> members[i].name])

\* a plausible slip: the `publish = false` packages are not filtered out
packages_to_publish_keep_unpublishable(c) ==
    IF ~cargo_metadata(c).ok THEN cargo_metadata(c)
    ELSE LET metadata == cargo_metadata(c).val
         IN Ok(SelectSeq(metadata.packages, LAMBDA p : Contains(metadata.workspace_members, p.id)))

packages_to_publish(c) ==
    IF ~cargo_metadata(c).ok THEN cargo_metadata(c)
    ELSE LET metadata == cargo_metadata(c).val
         IN Ok(SelectSeq(metadata.packages,
                         LAMBDA p : /\ Contains(metadata.workspace_members, p.id)
                                    /\ (~p.publish.some \/ p.publish.val # {})))

\* lines 142-150: the loop over `sorted`, keeping the ids found among the candidates
RECURSIVE pick_sorted(_, _)
pick_sorted(sorted, candidates) ==
    IF sorted = <<>> THEN <<>>
    ELSE LET found == SelectSeq(candidates, LAMBDA p : p.id = Head(sorted))
         IN (IF found = <<>> THEN <<>> ELSE <<Head(found)>>) \o pick_sorted(Tail(sorted), candidates)

\* a plausible slip: the candidates are walked, in metadata order, and kept when sorted holds them
ordered_packages_to_publish_metadata_order(c) ==
    IF ~cargo_metadata(c).ok THEN cargo_metadata(c)
    ELSE IF ~sort_workspace(cargo_metadata(c).val).ok THEN sort_workspace(cargo_metadata(c).val)
    ELSE Ok(SelectSeq(packages_to_publish(c).val, LAMBDA p : Contains(sort_workspace(cargo_metadata(c).val).val, p.id)))

\* a plausible slip: the packages that are not published are dropped before the sort
ordered_packages_to_publish_sort_candidates_only(c) ==
    IF ~cargo_metadata(c).ok THEN cargo_metadata(c)
    ELSE IF ~packages_to_publish(c).ok THEN packages_to_publish(c)
    ELSE LET candidates == packages_to_publish(c).val
             kept == [cargo_metadata(c).val EXCEPT
                        !.workspace_members = SelectSeq(@, LAMBDA id : \E i \in DOMAIN candidates : candidates[i].id = id)]
         IN IF ~sort_workspace(kept).ok THEN sort_workspace(kept)
            ELSE Ok(pick_sorted(sort_workspace(kept).val, candidates))

ordered_packages_to_publish(c) ==
    IF ~cargo_metadata(c).ok THEN cargo_metadata(c)
    ELSE IF ~sort_workspace(cargo_metadata(c).val).ok THEN sort_workspace(cargo_metadata(c).val)
    ELSE IF ~packages_to_publish(c).ok THEN packages_to_publish(c)
    ELSE Ok(pick_sorted(sort_workspace(cargo_metadata(c).val).val, packages_to_publish(c).val))

version(c) ==
    IF c.version.some THEN Ok(c.version.val)
    ELSE Err("Pending version is not queried yet")

github_client(c) ==
    IF c.github_client.some THEN Ok(c.github_client.val)
    ELSE Err("GitHub client is not initialized")

\* a plausible slip: an unset artifact list reads as the empty list
artifacts_default_empty(c) ==
    IF c.artifacts.some THEN Ok(c.artifacts.val)
    ELSE Ok(<<>>)

artifacts(c) ==
    IF c.artifacts.some THEN Ok(c.artifacts.val)
    ELSE Err("Artifacts list is empty")

text_template_context(c) ==
    IF ~version(c).ok THEN version(c)
    ELSE Ok([root_crate |-> root_crate_name(c), version |-> version(c).val, changelog |-> c.changelog])

set_github_token(c, token) ==
    [c EXCEPT !.github_token = Some(token), !.github_client = Some("client")]

set_github_release_tag(c, tag) == [c EXCEPT !.github_release_tag = Some(tag)]

github_release_tag(c) ==
    IF c.github_release_tag.some THEN Ok(c.github_release_tag.val)
    ELSE Err("GitHub tag is not created yet")

---------------------------------------------------------------------------
(* The result of a step's execute: whether it returned Ok, the context it
   left and the external calls it made *)

StepOk(c, eff) == [ok |-> TRUE, ctx |-> c, eff |-> eff]
StepErr(c, eff, e) == [ok |-> FALSE, ctx |-> c, eff |-> eff, err |-> e]

---------------------------------------------------------------------------
(* release/step/init.rs: Init *)

\* ans: what the environment, git and `cargo metadata` answer
Init_acquire_tokens(c, ans) ==
    IF ~release_config(c).ok THEN StepErr(c, <<>>, release_config(c).err)
    ELSE IF ~ans.registry_token.some THEN StepErr(c, <<>>, "Crate resitry token is missing")
    ELSE LET c1 == [c EXCEPT !.crates_io_token = ans.registry_token]
         IN IF ~c1.config.github.some THEN StepOk(c1, <<>>)
            ELSE IF ~ans.github_token.some THEN StepErr(c1, <<>>, "GitHub token is missing")
            ELSE StepOk(set_github_token(c1, ans.github_token.val), <<>>)

Init_process_git_state(c, ans) ==
    IF ~ans.git_installed THEN StepErr(c, <<>>, "git is missing")
    ELSE IF ~ans.commit.ok THEN StepErr(c, <<>>, "Failed to get current git commit")
    ELSE StepOk([c EXCEPT !.current_commit = Some(ans.commit.val)], <<>>)

Init_process_metadata(c, ans) ==
    IF ~ans.metadata.ok THEN StepErr(c, <<>>, "Failed to parse cargo metadata")
    ELSE LET medatada == ans.metadata.val
             named == SelectSeq(medatada.packages, LAMBDA p : p.name = root_crate_name(c))
         IN IF named = <<>> THEN StepErr(c, <<>>, "Failed to find root crate in workspace")
            ELSE StepOk([c EXCEPT !.metadata = Some(medatada), !.version = Some(Head(named).version)], <<>>)

Init_start_message(c) == Ok("Initializing release process for " \o c.config.workspace.root_crate)

Init_success_message(c) == Ok("Initialization completed")

Init_execute(c, ans) ==
    LET r1 == Init_acquire_tokens(c, ans)
        r2 == Init_process_git_state(r1.ctx, ans)
        r3 == Init_process_metadata(r2.ctx, ans)
    IN IF ~r1.ok THEN r1 ELSE IF ~r2.ok THEN r2 ELSE r3

---------------------------------------------------------------------------
(* release/step/version.rs: VaidateVersion *)

\* What a check returns: Ok or Err, the context it left, the external calls it
\* made and the lines it printed
CheckOk(c, eff, out) == [ok |-> TRUE, ctx |-> c, eff |-> eff, out |-> out]
CheckErr(c, eff, out, e) == [ok |-> FALSE, ctx |-> c, eff |-> eff, out |-> out, err |-> e]

\* A printed line: the header of a check, or the verdict on one package
Line(kind, check, pkg, deps) == [kind |-> kind, check |-> check, pkg |-> pkg, deps |-> deps]
Header(check) == Line("header", check, <<>>, <<>>)

full_package_name(p) == <<p.name, p.version>>

\* semver: Comparator::matches and VersionReq::matches on release versions
comparator_matches(cmp, ver) ==
    CASE cmp.op = "=" -> ver = cmp.v
      [] cmp.op = ">=" -> ver >= cmp.v
      [] cmp.op = "<" -> ver < cmp.v

req_matches(req, ver) == \A i \in DOMAIN req.comparators : comparator_matches(req.comparators[i], ver)

\* a plausible slip: a pending version equal to the published one is let through
check_version_raised_allow_equal(ver, c, ans) ==
    IF ~release_config(c).ok THEN CheckErr(c, <<>>, <<>>, release_config(c).err)
    ELSE IF ~release_config(c).val.check_version_raised THEN CheckOk(c, <<>>, <<Header("raise-skipped")>>)
    ELSE LET out == <<Header("raise")>>
             eff == <<[op |-> "search", crate |-> root_crate_name(c)]>>
             prev_version == ans.last_released
         IN IF ~prev_version.ok THEN CheckErr(c, eff, out, "Failed to query crates.io packages")
            ELSE IF prev_version.val.some
                 THEN IF ver < prev_version.val.val
                      THEN CheckErr(c, eff, out, "Pending version is lower or equal to already published version")
                      ELSE CheckOk([c EXCEPT !.prev_version = Some(Some(prev_version.val.val))], eff, out)
                 ELSE CheckOk([c EXCEPT !.prev_version = Some(None)], eff, out)

\* a plausible slip: a lookup that finds nothing leaves prev_version untouched
check_version_raised_absence_not_recorded(ver, c, ans) ==
    IF ~release_config(c).ok THEN CheckErr(c, <<>>, <<>>, release_config(c).err)
    ELSE IF ~release_config(c).val.check_version_raised THEN CheckOk(c, <<>>, <<Header("raise-skipped")>>)
    ELSE LET out == <<Header("raise")>>
             eff == <<[op |-> "search", crate |-> root_crate_name(c)]>>
             prev_version == ans.last_released
         IN IF ~prev_version.ok THEN CheckErr(c, eff, out, "Failed to query crates.io packages")
            ELSE IF prev_version.val.some
                 THEN IF ver <= prev_version.val.val
                      THEN CheckErr(c, eff, out, "Pending version is lower or equal to already published version")
                      ELSE CheckOk([c EXCEPT !.prev_version = Some(Some(prev_version.val.val))], eff, out)
                 ELSE CheckOk(c, eff, out)

\* a plausible slip: the version found in the registry is stored as the pending one
check_version_raised_stored_as_version(ver, c, ans) ==
    IF ~release_config(c).ok THEN CheckErr(c, <<>>, <<>>, release_config(c).err)
    ELSE IF ~release_config(c).val.check_version_raised THEN CheckOk(c, <<>>, <<Header("raise-skipped")>>)
    ELSE LET out == <<Header("raise")>>
             eff == <<[op |-> "search", crate |-> root_crate_name(c)]>>
             prev_version == ans.last_released
         IN IF ~prev_version.ok THEN CheckErr(c, eff, out, "Failed to query crates.io packages")
            ELSE IF prev_version.val.some
                 THEN IF ver <= prev_version.val.val
                      THEN CheckErr(c, eff, out, "Pending version is lower or equal to already published version")
                      ELSE CheckOk([c EXCEPT !.version = Some(prev_version.val.val)], eff, out)
                 ELSE CheckOk([c EXCEPT !.prev_version = Some(None)], eff, out)

\* ans.last_released: what query_last_released_version returns for the root crate
check_version_raised(ver, c, ans) ==
    IF ~release_config(c).ok THEN CheckErr(c, <<>>, <<>>, release_config(c).err)
    ELSE IF ~release_config(c).val.check_version_raised THEN CheckOk(c, <<>>, <<Header("raise-skipped")>>)
    ELSE LET out == <<Header("raise")>>
             eff == <<[op |-> "search", crate |-> root_crate_name(c)]>>
             prev_version == ans.last_released
         IN IF ~prev_version.ok THEN CheckErr(c, eff, out, "Failed to query crates.io packages")
            ELSE IF prev_version.val.some
                 THEN IF ver <= prev_version.val.val
                      THEN CheckErr(c, eff, out, "Pending version is lower or equal to already published version")
                      ELSE CheckOk([c EXCEPT !.prev_version = Some(Some(prev_version.val.val))], eff, out)
                 ELSE CheckOk([c EXCEPT !.prev_version = Some(None)], eff, out)

\* a plausible slip: an in-workspace dev-dependency is flagged whatever its requirement
broken_dev_deps_any_requirement(p, names) ==
    LET broken == SelectSeq(p.dependencies,
                            LAMBDA dep : dep.kind = "dev" /\ Contains(names, dep.name))
    IN [i \in DOMAIN broken |-> broken[i].name]

\* lines 61-71: the names of the in-workspace dev-dependencies of p that carry a requirement
broken_dev_deps(p, names) ==
    LET broken == SelectSeq(p.dependencies,
                            LAMBDA dep : /\ dep.kind = "dev"
                                         /\ Contains(names, dep.name)
                                         /\ dep.req.comparators # <<>>)
    IN [i \in DOMAIN broken |-> broken[i].name]

\* lines 56-78: one line per package with broken dev-dependencies
RECURSIVE dev_dependencies_loop(_, _)
dev_dependencies_loop(pkgs, names) ==
    IF pkgs = <<>> THEN <<>>
    ELSE (IF broken_dev_deps(Head(pkgs), names) # <<>>
          THEN <<Line("bad", "dev", full_package_name(Head(pkgs)), broken_dev_deps(Head(pkgs), names))>>
          ELSE <<>>) \o dev_dependencies_loop(Tail(pkgs), names)

check_dev_dependencies(c) ==
    IF ~release_config(c).ok THEN CheckErr(c, <<>>, <<>>, release_config(c).err)
    ELSE IF release_config(c).val.allow_non_path_dev_dependencies THEN CheckOk(c, <<>>, <<>>)
    ELSE IF ~packages_to_publish(c).ok THEN CheckErr(c, <<>>, <<Header("dev")>>, packages_to_publish(c).err)
    ELSE LET out == <<Header("dev")>> \o dev_dependencies_loop(packages_to_publish(c).val, workspace_package_names(c).val)
         IN IF Len(out) > 1 THEN CheckErr(c, <<>>, out, "Detected invalid dev dependencies")
            ELSE CheckOk(c, <<>>, out)

\* a plausible slip: an unset allow-set is read as the list holding crates-io only
publish_allowed_unset_is_crates_io(p, registry) ==
    IF ~p.publish.some THEN ~registry.some \/ registry.val = CRATES_IO_REGISTRY_NAME
    ELSE IF registry.some THEN registry.val \in p.publish.val
    ELSE CRATES_IO_REGISTRY_NAME \in p.publish.val

\* lines 98-103
publish_allowed(p, registry) ==
    IF ~p.publish.some THEN TRUE
    ELSE IF registry.some THEN registry.val \in p.publish.val
    ELSE CRATES_IO_REGISTRY_NAME \in p.publish.val

\* lines 97-114: one line per package that does not allow the registry
RECURSIVE registry_loop(_, _)
registry_loop(pkgs, registry) ==
    IF pkgs = <<>> THEN <<>>
    ELSE (IF ~publish_allowed(Head(pkgs), registry)
          THEN <<Line("bad", "registry", full_package_name(Head(pkgs)), <<>>)>>
          ELSE <<>>) \o registry_loop(Tail(pkgs), registry)

check_registry_consistency(c) ==
    IF ~packages_to_publish(c).ok THEN CheckErr(c, <<>>, <<Header("registry")>>, packages_to_publish(c).err)
    ELSE IF ~release_config(c).ok THEN CheckErr(c, <<>>, <<Header("registry")>>, release_config(c).err)
    ELSE LET out == <<Header("registry")>> \o registry_loop(packages_to_publish(c).val, release_config(c).val.registry)
         IN IF Len(out) > 1 THEN CheckErr(c, <<>>, out, "Package registry inconsistency detected")
            ELSE CheckOk(c, <<>>, out)

\* a plausible slip: development dependencies are left out of the comparison
inconsistent_deps_list_non_dev(p, ver, names) ==
    SelectSeq(p.dependencies,
              LAMBDA dep : dep.kind # "dev" /\ Contains(names, dep.name) /\ ~req_matches(dep.req, ver))

\* lines 143-151: the in-workspace dependencies of p whose requirement does not match
inconsistent_deps_list(p, ver, names) ==
    SelectSeq(p.dependencies,
              LAMBDA dep : Contains(names, dep.name) /\ ~req_matches(dep.req, ver))

\* lines 131-164: the verdict on one package
consistency_verdict(p, ver, names) ==
    IF p.version # ver THEN Line("bad", "version", full_package_name(p), <<>>)
    ELSE IF inconsistent_deps_list(p, ver, names) # <<>>
         THEN Line("bad", "deps", full_package_name(p), inconsistent_deps_list(p, ver, names))
    ELSE Line("ok", "version", full_package_name(p), <<>>)

\* a plausible slip: every workspace member is compared, candidate or not
check_version_consistency_all_members(ver, c) ==
    IF ~cargo_metadata(c).ok THEN CheckErr(c, <<>>, <<Header("version")>>, cargo_metadata(c).err)
    ELSE LET pkgs == SelectSeq(cargo_metadata(c).val.packages,
                               LAMBDA p : Contains(cargo_metadata(c).val.workspace_members, p.id))
             names == workspace_package_names(c).val
             verdicts == [i \in DOMAIN pkgs |-> consistency_verdict(pkgs[i], ver, names)]
             out == <<Header("version")>> \o verdicts
         IN IF \E i \in DOMAIN verdicts : verdicts[i].kind = "bad"
            THEN CheckErr(c, <<>>, out, "Detected version inconsistency in crates")
            ELSE CheckOk(c, <<>>, out)

\* a plausible slip: the loop is left at the first inconsistent package
check_version_consistency_stop_at_first(ver, c) ==
    IF ~packages_to_publish(c).ok THEN CheckErr(c, <<>>, <<Header("version")>>, packages_to_publish(c).err)
    ELSE LET pkgs == packages_to_publish(c).val
             names == workspace_package_names(c).val
             verdicts == [i \in DOMAIN pkgs |-> consistency_verdict(pkgs[i], ver, names)]
             bad == {i \in DOMAIN verdicts : verdicts[i].kind = "bad"}
             first == CHOOSE i \in bad : \A j \in bad : i <= j
         IN IF bad # {}
            THEN CheckErr(c, <<>>, <<Header("version")>> \o SubSeq(verdicts, 1, first), "Detected version inconsistency in crates")
            ELSE CheckOk(c, <<>>, <<Header("version")>> \o verdicts)

check_version_consistency(ver, c) ==
    IF ~packages_to_publish(c).ok THEN CheckErr(c, <<>>, <<Header("version")>>, packages_to_publish(c).err)
    ELSE LET pkgs == packages_to_publish(c).val
             names == workspace_package_names(c).val
             verdicts == [i \in DOMAIN pkgs |-> consistency_verdict(pkgs[i], ver, names)]
             out == <<Header("version")>> \o verdicts
         IN IF \E i \in DOMAIN verdicts : verdicts[i].kind = "bad"
            THEN CheckErr(c, <<>>, out, "Detected version inconsistency in crates")
            ELSE CheckOk(c, <<>>, out)

VaidateVersion_start_message(c) == Ok("Validating repo versioning")

VaidateVersion_success_message(c) == Ok("Version validation done")

\* a plausible slip: the four checks all run and their failures are gathered at the end
VaidateVersion_execute_run_all(c, ans) ==
    IF ~version(c).ok THEN CheckErr(c, <<>>, <<>>, version(c).err)
    ELSE LET ver == version(c).val
             r1 == check_registry_consistency(c)
             r2 == check_version_raised(ver, r1.ctx, ans)
             r3 == check_dev_dependencies(r2.ctx)
             r4 == check_version_consistency(ver, r3.ctx)
             eff == r1.eff \o r2.eff \o r3.eff \o r4.eff
             out == r1.out \o r2.out \o r3.out \o r4.out
         IN IF r1.ok /\ r2.ok /\ r3.ok /\ r4.ok THEN CheckOk(r4.ctx, eff, out)
            ELSE CheckErr(r4.ctx, eff, out, "Version validation failed")

\* lines 184-192: each check is followed by `?`, modelled by and_then: an error is
\* returned at once, else the next check runs on the context the last one left
VaidateVersion_execute(c, ans) ==
    IF ~version(c).ok THEN CheckErr(c, <<>>, <<>>, version(c).err)
    ELSE LET and_then(r, check(_)) ==
                 IF ~r.ok THEN r
                 ELSE LET n == check(r.ctx)
                      IN [n EXCEPT !.eff = r.eff \o @, !.out = r.out \o @]
             raised(c1) == check_version_raised(version(c).val, c1, ans)
             consistent(c1) == check_version_consistency(version(c).val, c1)
         IN and_then(and_then(and_then(check_registry_consistency(c), raised), check_dev_dependencies), consistent)

\* What query_last_released_version can answer
LastReleasedAnswers ==
    {[last_released |-> Err("Failed to query crates.io packages")], [last_released |-> Ok(None)]}
        \cup {[last_released |-> Ok(Some(v))] : v \in Versions}

\* The answers the step can get: the registry is asked only when the check is enabled
VaidateVersion_answers(c) ==
    IF release_config(c).ok /\ release_config(c).val.check_version_raised
    THEN LastReleasedAnswers
    ELSE {[last_released |-> Ok(None)]}

---------------------------------------------------------------------------
(* release/step/artifacts.rs: CollectArtifacts *)

CollectArtifacts_start_message(c) == artifacts_config(c)

CollectArtifacts_success_message(c) == Ok(IF c.artifacts.some THEN Len(c.artifacts.val) ELSE 0)

\* ans.exists: the folder exists; ans.entries: what read_dir lists, each entry
\* with its path and whether its metadata says it is a regular file
CollectArtifacts_execute(c, ans) ==
    IF ~artifacts_config(c).ok THEN StepErr(c, <<>>, artifacts_config(c).err)
    ELSE IF ~ans.exists THEN StepErr(c, <<>>, "Artifacts folder does not exist")
    ELSE IF ~ans.entries.ok THEN StepErr(c, <<>>, ans.entries.err)
    ELSE LET entries == ans.entries.val
             files == SelectSeq(entries, LAMBDA a : a.is_file)
         IN IF artifacts_config(c).val.check_not_empty /\ entries = <<>>
            THEN StepErr(c, <<>>, "Artifacts folder is empty")
            ELSE StepOk([c EXCEPT !.artifacts = Some([i \in DOMAIN files |-> files[i].path])], <<>>)

---------------------------------------------------------------------------
(* release/step/changelog.rs: CaptureChangelog *)

CaptureChangelog_start_message(c) == changelog_config(c)

CaptureChangelog_success_message(c) == Ok("Changelog has been captured")

\* A line of the file: its text and the rendered markers it contains
ChangelogLine(text, marks) == [text |-> text, marks |-> marks]

\* position(|l| l.contains(marker)): 0 stands for None
marker_position(lines, marker) ==
    IF \E i \in DOMAIN lines : marker \in lines[i].marks
    THEN CHOOSE i \in DOMAIN lines : marker \in lines[i].marks /\ \A j \in 1..(i - 1) : marker \notin lines[j].marks
    ELSE 0

\* a plausible slip: the two markers are accepted on the same line
CaptureChangelog_execute_same_line_accepted(c, ans) ==
    IF ~changelog_config(c).ok THEN StepErr(c, <<>>, changelog_config(c).err)
    ELSE IF ~ans.file.ok THEN StepErr(c, <<>>, ans.file.err)
    ELSE LET changelog_config_ == changelog_config(c).val
             changelog_lines == ans.file.val
         IN IF ~changelog_config_.start_marker_template.some
            THEN StepOk([c EXCEPT !.changelog = Some(changelog_lines)], <<>>)
            ELSE IF ~changelog_config_.end_marker_template.some THEN StepErr(c, <<>>, "end_marker_template is missing")
            ELSE IF ~text_template_context(c).ok THEN StepErr(c, <<>>, text_template_context(c).err)
            ELSE LET begin_marker == TextTemplate_render(changelog_config_.start_marker_template.val, text_template_context(c).val)
                     end_marker == TextTemplate_render(changelog_config_.end_marker_template.val, text_template_context(c).val)
                 IN IF ~begin_marker.ok THEN StepErr(c, <<>>, begin_marker.err)
                    ELSE IF ~end_marker.ok THEN StepErr(c, <<>>, end_marker.err)
                    ELSE LET begin == marker_position(changelog_lines, begin_marker.val)
                             end == marker_position(changelog_lines, end_marker.val)
                         IN IF begin = 0 /\ end = 0 THEN StepErr(c, <<>>, "Can't find required changelog markers")
                            ELSE IF begin = 0 THEN StepErr(c, <<>>, "Can't find required changelog begin marker")
                            ELSE IF end = 0 THEN StepErr(c, <<>>, "Can't find required changelog end marker")
                            ELSE IF end < begin
                                 THEN StepErr(c, <<>>, "Changelog end barker should be placed after corresponding begin marker")
                            ELSE IF begin + 1 = end /\ ~changelog_config_.allow_empty_changelog
                                 THEN StepErr(c, <<>>, "Changelog is empty")
                            ELSE StepOk([c EXCEPT !.changelog = Some(SubSeq(changelog_lines, begin + 1, end - 1))], <<>>)

\* ans.file: what reading the changelog file as text gives
CaptureChangelog_execute(c, ans) ==
    IF ~changelog_config(c).ok THEN StepErr(c, <<>>, changelog_config(c).err)
    ELSE IF ~ans.file.ok THEN StepErr(c, <<>>, ans.file.err)
    ELSE LET changelog_config_ == changelog_config(c).val
             changelog_lines == ans.file.val
         IN IF ~changelog_config_.start_marker_template.some
            THEN StepOk([c EXCEPT !.changelog = Some(changelog_lines)], <<>>)
            ELSE IF ~changelog_config_.end_marker_template.some THEN StepErr(c, <<>>, "end_marker_template is missing")
            ELSE IF ~text_template_context(c).ok THEN StepErr(c, <<>>, text_template_context(c).err)
            ELSE LET begin_marker == TextTemplate_render(changelog_config_.start_marker_template.val, text_template_context(c).val)
                     end_marker == TextTemplate_render(changelog_config_.end_marker_template.val, text_template_context(c).val)
                 IN IF ~begin_marker.ok THEN StepErr(c, <<>>, begin_marker.err)
                    ELSE IF ~end_marker.ok THEN StepErr(c, <<>>, end_marker.err)
                    ELSE LET begin == marker_position(changelog_lines, begin_marker.val)
                             end == marker_position(changelog_lines, end_marker.val)
                         IN IF begin = 0 /\ end = 0 THEN StepErr(c, <<>>, "Can't find required changelog markers")
                            ELSE IF begin = 0 THEN StepErr(c, <<>>, "Can't find required changelog begin marker")
                            ELSE IF end = 0 THEN StepErr(c, <<>>, "Can't find required changelog end marker")
                            ELSE IF end <= begin
                                 THEN StepErr(c, <<>>, "Changelog end barker should be placed after corresponding begin marker")
                            ELSE IF begin + 1 = end /\ ~changelog_config_.allow_empty_changelog
                                 THEN StepErr(c, <<>>, "Changelog is empty")
                            ELSE StepOk([c EXCEPT !.changelog = Some(SubSeq(changelog_lines, begin + 1, end - 1))], <<>>)

---------------------------------------------------------------------------
(* release/step/github.rs *)

ValidateCommitPushedToGithub_start_message(c) ==
    IF ~github_config(c).ok THEN github_config(c) ELSE current_commit(c)

ValidateCommitPushedToGithub_success_message(c) == Ok("Success! Current commit is pushed to the remote")

\* ans.pushed: whether GitHub knows the commit
ValidateCommitPushedToGithub_execute(c, ans) ==
    IF ~github_config(c).ok THEN StepErr(c, <<>>, github_config(c).err)
    ELSE IF ~current_commit(c).ok THEN StepErr(c, <<>>, current_commit(c).err)
    ELSE IF ~github_client(c).ok THEN StepErr(c, <<>>, github_client(c).err)
    ELSE LET eff == <<[op |-> "combined_status_for_ref", commit |-> current_commit(c).val, ok |-> ans.pushed]>>
         IN IF ~ans.pushed THEN StepErr(c, eff, "Current commit is missing in the GitHub remote")
            ELSE StepOk(c, eff)

CreateTagOnGithub_start_message(c) == version(c)

CreateTagOnGithub_success_message(c) == Ok("Tag has been created")

\* The same step without the return of a dry run
CreateTagOnGithub_execute_no_dry_run_return(c, ans) ==
    IF ~text_template_context(c).ok THEN StepErr(c, <<>>, text_template_context(c).err)
    ELSE IF ~release_github_config(c).ok THEN StepErr(c, <<>>, release_github_config(c).err)
    ELSE LET tag == TextTemplate_render(release_github_config(c).val.tag_name_template, text_template_context(c).val)
         IN IF ~tag.ok THEN StepErr(c, <<>>, tag.err)
            ELSE LET c1 == set_github_release_tag(c, tag.val)
                     eff == <<[op |-> "create_ref", tag |-> tag.val, commit |-> current_commit(c1).val, ok |-> ans.created]>>
                 IN IF ~github_config(c1).ok THEN StepErr(c1, <<>>, github_config(c1).err)
                    ELSE IF ~current_commit(c1).ok THEN StepErr(c1, <<>>, current_commit(c1).err)
                    ELSE IF ~github_client(c1).ok THEN StepErr(c1, <<>>, github_client(c1).err)
                    ELSE IF ~ans.created THEN StepErr(c1, eff, "Failed to create new tag in GitHub repo")
                    ELSE StepOk(c1, eff)

\* a plausible slip: the no-publish flag skips the creation of the tag too
CreateTagOnGithub_execute_skip_when_nopublish(c, ans) ==
    IF ~text_template_context(c).ok THEN StepErr(c, <<>>, text_template_context(c).err)
    ELSE IF ~release_github_config(c).ok THEN StepErr(c, <<>>, release_github_config(c).err)
    ELSE LET tag == TextTemplate_render(release_github_config(c).val.tag_name_template, text_template_context(c).val)
         IN IF ~tag.ok THEN StepErr(c, <<>>, tag.err)
            ELSE LET c1 == set_github_release_tag(c, tag.val)
                     eff == <<[op |-> "create_ref", tag |-> tag.val, commit |-> current_commit(c1).val, ok |-> ans.created]>>
                 IN IF ~github_config(c1).ok THEN StepErr(c1, <<>>, github_config(c1).err)
                    ELSE IF ~current_commit(c1).ok THEN StepErr(c1, <<>>, current_commit(c1).err)
                    ELSE IF is_dry_run(c1) \/ is_nopublish(c1) THEN StepOk(c1, <<>>)
                    ELSE IF ~github_client(c1).ok THEN StepErr(c1, <<>>, github_client(c1).err)
                    ELSE IF ~ans.created THEN StepErr(c1, eff, "Failed to create new tag in GitHub repo")
                    ELSE StepOk(c1, eff)

\* a plausible slip: the tag is stored once the ref exists, after the return of a dry run
CreateTagOnGithub_execute_tag_stored_after_call(c, ans) ==
    IF ~text_template_context(c).ok THEN StepErr(c, <<>>, text_template_context(c).err)
    ELSE IF ~release_github_config(c).ok THEN StepErr(c, <<>>, release_github_config(c).err)
    ELSE LET tag == TextTemplate_render(release_github_config(c).val.tag_name_template, text_template_context(c).val)
         IN IF ~tag.ok THEN StepErr(c, <<>>, tag.err)
            ELSE LET c1 == set_github_release_tag(c, tag.val)
                     eff == <<[op |-> "create_ref", tag |-> tag.val, commit |-> current_commit(c).val, ok |-> ans.created]>>
                 IN IF ~github_config(c).ok THEN StepErr(c, <<>>, github_config(c).err)
                    ELSE IF ~current_commit(c).ok THEN StepErr(c, <<>>, current_commit(c).err)
                    ELSE IF is_dry_run(c) THEN StepOk(c, <<>>)
                    ELSE IF ~github_client(c).ok THEN StepErr(c, <<>>, github_client(c).err)
                    ELSE IF ~ans.created THEN StepErr(c, eff, "Failed to create new tag in GitHub repo")
                    ELSE StepOk(c1, eff)

\* ans.created: whether GitHub accepts the new ref
CreateTagOnGithub_execute(c, ans) ==
    IF ~text_template_context(c).ok THEN StepErr(c, <<>>, text_template_context(c).err)
    ELSE IF ~release_github_config(c).ok THEN StepErr(c, <<>>, release_github_config(c).err)
    ELSE LET tag == TextTemplate_render(release_github_config(c).val.tag_name_template, text_template_context(c).val)
         IN IF ~tag.ok THEN StepErr(c, <<>>, tag.err)
            ELSE LET c1 == set_github_release_tag(c, tag.val)
                     eff == <<[op |-> "create_ref", tag |-> tag.val, commit |-> current_commit(c1).val, ok |-> ans.created]>>
                 IN IF ~github_config(c1).ok THEN StepErr(c1, <<>>, github_config(c1).err)
                    ELSE IF ~current_commit(c1).ok THEN StepErr(c1, <<>>, current_commit(c1).err)
                    ELSE IF is_dry_run(c1) THEN StepOk(c1, <<>>)
                    ELSE IF ~github_client(c1).ok THEN StepErr(c1, <<>>, github_client(c1).err)
                    ELSE IF ~ans.created THEN StepErr(c1, eff, "Failed to create new tag in GitHub repo")
                    ELSE StepOk(c1, eff)

CreateGithubRelease_start_message(c) == github_release_tag(c)

CreateGithubRelease_success_message(c) == Ok("GitHub release has been created")

\* The uploads of the artifacts in order, up to the first that fails
upload_github_release_assets(files, fail_at) ==
    LET last == IF fail_at \in DOMAIN files THEN fail_at ELSE Len(files)
    IN [i \in 1..last |-> [op |-> "upload_release_asset", file |-> files[i], ok |-> i # fail_at]]

\* ans.created: whether GitHub accepts the release; ans.fail_at: the upload
\* that fails, 0 when none does
CreateGithubRelease_execute(c, ans) ==
    IF ~text_template_context(c).ok THEN StepErr(c, <<>>, text_template_context(c).err)
    ELSE IF ~release_github_config(c).ok THEN StepErr(c, <<>>, release_github_config(c).err)
    ELSE LET github == release_github_config(c).val
             title == TextTemplate_render(github.release_page_title_template, text_template_context(c).val)
             body == TextTemplate_render(github.release_page_body_template, text_template_context(c).val)
         IN IF ~title.ok THEN StepErr(c, <<>>, title.err)
            ELSE IF ~body.ok THEN StepErr(c, <<>>, body.err)
            ELSE IF ~github_config(c).ok THEN StepErr(c, <<>>, github_config(c).err)
            ELSE IF ~github_release_tag(c).ok THEN StepErr(c, <<>>, github_release_tag(c).err)
            ELSE IF is_dry_run(c) THEN StepOk(c, <<>>)
            ELSE IF ~github_client(c).ok THEN StepErr(c, <<>>, github_client(c).err)
            ELSE LET create == <<[op |-> "create_release", tag |-> github_release_tag(c).val,
                                  name |-> title.val, body |-> body.val, ok |-> ans.created]>>
                 IN IF ~ans.created THEN StepErr(c, create, "Failed to create GitHub release")
                    ELSE IF ~github.release_page_upload_artifacts THEN StepOk(c, create)
                    ELSE IF ~artifacts(c).ok THEN StepErr(c, create, artifacts(c).err)
                    ELSE IF artifacts(c).val = <<>> THEN StepOk(c, create)
                    ELSE LET uploads == upload_github_release_assets(artifacts(c).val, ans.fail_at)
                         IN IF ans.fail_at \in DOMAIN artifacts(c).val
                            THEN StepErr(c, create \o uploads, "Failed to upload release asset")
                            ELSE StepOk(c, create \o uploads)

---------------------------------------------------------------------------
(* release/step/cargo.rs: CargoPublish *)

CargoPublish_start_message(validate, c) ==
    Ok(IF validate THEN "Validating cargo publish (with --dry-run)" ELSE "Running cargo publish")

CargoPublish_success_message(validate, c) ==
    Ok(IF validate THEN "Cargo publish validation passed" ELSE "Cargo publish succeeded")

\* The cargo invocation: --dry-run --no-verify when dry_run, the registry when given
execute_publish(p, registry, dry_run, ok) ==
    [op |-> "cargo publish", manifest |-> p.name, registry |-> registry, dry_run |-> dry_run, ok |-> ok]

has_bin_target(p) == \E i \in DOMAIN p.targets : p.targets[i] = "bin"

\* a plausible slip: the dry-run loop does not skip the packages with a bin target
publish_invoked_bin_included(ordered_packages, dry_run) == ordered_packages

\* The packages the loop of `publish` invokes cargo for
publish_invoked(ordered_packages, dry_run) ==
    IF dry_run THEN SelectSeq(ordered_packages, LAMBDA p : ~has_bin_target(p)) ELSE ordered_packages

\* a plausible slip: the real loop waits before every publish, the first included
CargoPublish_publish_wait_before_each(validate, c, ans) ==
    LET dry_run == is_dry_run(c) \/ validate
        ordered_packages == ordered_packages_to_publish(c)
    IN IF ~ordered_packages.ok THEN StepErr(c, <<>>, ordered_packages.err)
       ELSE IF ~release_config(c).ok THEN StepErr(c, <<>>, release_config(c).err)
       ELSE LET registry == release_config(c).val.registry
                publish_interval == release_config(c).val.publish_interval_seconds
                pkgs == publish_invoked(ordered_packages.val, dry_run)
                failed == ans.fail_at \in DOMAIN pkgs
                last == IF failed THEN ans.fail_at ELSE Len(pkgs)
                eff == IF dry_run
                       THEN [i \in 1..last |-> execute_publish(pkgs[i], registry, TRUE, i # ans.fail_at)]
                       ELSE [k \in 1..(2 * last) |->
                                IF k % 2 = 0
                                THEN execute_publish(pkgs[k \div 2], registry, FALSE, k \div 2 # ans.fail_at)
                                ELSE [op |-> "sleep", seconds |-> publish_interval]]
            IN IF failed THEN StepErr(c, eff, "Cargo publish failed") ELSE StepOk(c, eff)

\* a plausible slip: the real loop goes on with the next packages after a failed publish
CargoPublish_publish_continue_after_failure(validate, c, ans) ==
    LET dry_run == is_dry_run(c) \/ validate
        ordered_packages == ordered_packages_to_publish(c)
    IN IF ~ordered_packages.ok THEN StepErr(c, <<>>, ordered_packages.err)
       ELSE IF ~release_config(c).ok THEN StepErr(c, <<>>, release_config(c).err)
       ELSE LET registry == release_config(c).val.registry
                publish_interval == release_config(c).val.publish_interval_seconds
                pkgs == publish_invoked(ordered_packages.val, dry_run)
                failed == ans.fail_at \in DOMAIN pkgs
                last == IF failed /\ dry_run THEN ans.fail_at ELSE Len(pkgs)
                eff == IF dry_run
                       THEN [i \in 1..last |-> execute_publish(pkgs[i], registry, TRUE, i # ans.fail_at)]
                       ELSE [k \in 1..(2 * last - 1) |->
                                IF k % 2 = 1
                                THEN execute_publish(pkgs[(k + 1) \div 2], registry, FALSE, (k + 1) \div 2 # ans.fail_at)
                                ELSE [op |-> "sleep", seconds |-> publish_interval]]
            IN IF failed THEN StepErr(c, eff, "Cargo publish failed") ELSE StepOk(c, eff)

\* ans.fail_at: the cargo invocation that fails, 0 when none does
CargoPublish_publish(validate, c, ans) ==
    LET dry_run == is_dry_run(c) \/ validate
        ordered_packages == ordered_packages_to_publish(c)
    IN IF ~ordered_packages.ok THEN StepErr(c, <<>>, ordered_packages.err)
       ELSE IF ~release_config(c).ok THEN StepErr(c, <<>>, release_config(c).err)
       ELSE LET registry == release_config(c).val.registry
                publish_interval == release_config(c).val.publish_interval_seconds
                pkgs == publish_invoked(ordered_packages.val, dry_run)
                failed == ans.fail_at \in DOMAIN pkgs
                last == IF failed THEN ans.fail_at ELSE Len(pkgs)
                eff == IF dry_run
                       THEN [i \in 1..last |-> execute_publish(pkgs[i], registry, TRUE, i # ans.fail_at)]
                       ELSE [k \in 1..(2 * last - 1) |->
                                IF k % 2 = 1
                                THEN execute_publish(pkgs[(k + 1) \div 2], registry, FALSE, (k + 1) \div 2 # ans.fail_at)
                                ELSE [op |-> "sleep", seconds |-> publish_interval]]
            IN IF failed THEN StepErr(c, eff, "Cargo publish failed") ELSE StepOk(c, eff)

CargoPublish_execute(validate, c, ans) ==
    IF is_dry_run(c) /\ ~validate
    THEN StepErr(c, <<>>, "BUG: CargoPublish should not be called in non-validate mode when dry-run is specified")
    ELSE CargoPublish_publish(validate, c, ans)

---------------------------------------------------------------------------
(* release/mod.rs: ReleaseStep, ReleaseExecutor *)

ValidationSteps ==
    {"Init", "CollectArtifacts", "CaptureChangelog", "ValidateCommitPushedToGithub",
     "VaidateVersion", "CargoPublish::validate_only"}

\* The same method leaving the publish validation out of a confirmed run
build_steps_validate_in_dry_run_only(c) ==
    IF ~release_config(c).ok THEN Err(release_config(c).err)
    ELSE LET github == release_config(c).val.github
             when(cond, step) == IF cond THEN <<step>> ELSE <<>>
         IN Ok(<<"Init">>
               \o when(c.config.artifacts.some, "CollectArtifacts")
               \o when(c.config.changelog.some, "CaptureChangelog")
               \o when(github.some /\ github.val.check_commit_pushed, "ValidateCommitPushedToGithub")
               \o <<"VaidateVersion">>
               \o when(is_dry_run(c), "CargoPublish::validate_only")
               \o when(~(is_dry_run(c) \/ is_nopublish(c)), "CargoPublish::new")
               \o when(github.some /\ github.val.create_tag, "CreateTagOnGithub")
               \o when(github.some /\ github.val.create_release_page, "CreateGithubRelease"))

\* a plausible slip: a missing release section is read as a release without github part
build_steps_release_optional(c) ==
    LET github == IF release_config(c).ok THEN release_config(c).val.github ELSE None
        when(cond, step) == IF cond THEN <<step>> ELSE <<>>
    IN Ok(<<"Init">>
          \o when(c.config.artifacts.some, "CollectArtifacts")
          \o when(c.config.changelog.some, "CaptureChangelog")
          \o when(github.some /\ github.val.check_commit_pushed, "ValidateCommitPushedToGithub")
          \o <<"VaidateVersion", "CargoPublish::validate_only">>
          \o when(~(is_dry_run(c) \/ is_nopublish(c)), "CargoPublish::new")
          \o when(github.some /\ github.val.create_tag, "CreateTagOnGithub")
          \o when(github.some /\ github.val.create_release_page, "CreateGithubRelease"))

\* a plausible slip: the publish validation is queued ahead of the version validation
build_steps_publish_validation_first(c) ==
    IF ~release_config(c).ok THEN Err(release_config(c).err)
    ELSE LET github == release_config(c).val.github
             when(cond, step) == IF cond THEN <<step>> ELSE <<>>
         IN Ok(<<"Init">>
               \o when(c.config.artifacts.some, "CollectArtifacts")
               \o when(c.config.changelog.some, "CaptureChangelog")
               \o when(github.some /\ github.val.check_commit_pushed, "ValidateCommitPushedToGithub")
               \o <<"CargoPublish::validate_only", "VaidateVersion">>
               \o when(~(is_dry_run(c) \/ is_nopublish(c)), "CargoPublish::new")
               \o when(github.some /\ github.val.create_tag, "CreateTagOnGithub")
               \o when(github.some /\ github.val.create_release_page, "CreateGithubRelease"))

\* a plausible slip: the real publish step is left out of a dry run only
build_steps_publish_unless_dry_run(c) ==
    IF ~release_config(c).ok THEN Err(release_config(c).err)
    ELSE LET github == release_config(c).val.github
             when(cond, step) == IF cond THEN <<step>> ELSE <<>>
         IN Ok(<<"Init">>
               \o when(c.config.artifacts.some, "CollectArtifacts")
               \o when(c.config.changelog.some, "CaptureChangelog")
               \o when(github.some /\ github.val.check_commit_pushed, "ValidateCommitPushedToGithub")
               \o <<"VaidateVersion", "CargoPublish::validate_only">>
               \o when(~is_dry_run(c), "CargoPublish::new")
               \o when(github.some /\ github.val.create_tag, "CreateTagOnGithub")
               \o when(github.some /\ github.val.create_release_page, "CreateGithubRelease"))

\* a plausible slip: the push verification is queued whenever release.github is set
build_steps_always_check_pushed(c) ==
    IF ~release_config(c).ok THEN Err(release_config(c).err)
    ELSE LET github == release_config(c).val.github
             when(cond, step) == IF cond THEN <<step>> ELSE <<>>
         IN Ok(<<"Init">>
               \o when(c.config.artifacts.some, "CollectArtifacts")
               \o when(c.config.changelog.some, "CaptureChangelog")
               \o when(github.some, "ValidateCommitPushedToGithub")
               \o <<"VaidateVersion", "CargoPublish::validate_only">>
               \o when(~(is_dry_run(c) \/ is_nopublish(c)), "CargoPublish::new")
               \o when(github.some /\ github.val.create_tag, "CreateTagOnGithub")
               \o when(github.some /\ github.val.create_release_page, "CreateGithubRelease"))

\* a plausible slip: the release page is queued ahead of the tag
build_steps_release_page_first(c) ==
    IF ~release_config(c).ok THEN Err(release_config(c).err)
    ELSE LET github == release_config(c).val.github
             when(cond, step) == IF cond THEN <<step>> ELSE <<>>
         IN Ok(<<"Init">>
               \o when(c.config.artifacts.some, "CollectArtifacts")
               \o when(c.config.changelog.some, "CaptureChangelog")
               \o when(github.some /\ github.val.check_commit_pushed, "ValidateCommitPushedToGithub")
               \o <<"VaidateVersion", "CargoPublish::validate_only">>
               \o when(~(is_dry_run(c) \/ is_nopublish(c)), "CargoPublish::new")
               \o when(github.some /\ github.val.create_release_page, "CreateGithubRelease")
               \o when(github.some /\ github.val.create_tag, "CreateTagOnGithub"))

build_steps(c) ==
    IF ~release_config(c).ok THEN Err(release_config(c).err)
    ELSE LET github == release_config(c).val.github
             when(cond, step) == IF cond THEN <<step>> ELSE <<>>
         IN Ok(<<"Init">>
               \o when(c.config.artifacts.some, "CollectArtifacts")
               \o when(c.config.changelog.some, "CaptureChangelog")
               \o when(github.some /\ github.val.check_commit_pushed, "ValidateCommitPushedToGithub")
               \o <<"VaidateVersion", "CargoPublish::validate_only">>
               \o when(~(is_dry_run(c) \/ is_nopublish(c)), "CargoPublish::new")
               \o when(github.some /\ github.val.create_tag, "CreateTagOnGithub")
               \o when(github.some /\ github.val.create_release_page, "CreateGithubRelease"))

\* A run: where it stands, its context, the steps still queued, the external
\* calls made so far and the messages of the executor
Run(p, c, queue, eff, messages) == [pc |-> p, ctx |-> c, steps |-> queue, effects |-> eff, log |-> messages]

Message(step, event) == [step |-> step, event |-> event]

\* ReleaseExecutor::new and the head of execute: the queue is built, or the run fails
ReleaseExecutor_start(config, dry_run, nopublish) ==
    LET c == ReleaseContext_new(config, dry_run, nopublish)
    IN IF ~build_steps(c).ok THEN Run("failed", c, <<>>, <<>>, <<>>)
       ELSE Run("running", c, build_steps(c).val, <<>>, <<>>)

\* The tail of execute once the queue is empty: the released version is printed
after_loop(rest, c) == IF rest # <<>> THEN "running" ELSE IF version(c).ok THEN "done" ELSE "failed"

\* A turn of the loop that goes on to the next step after the error r
after_execute_keep_going(run, r, message) ==
    LET step == Head(run.steps)
        rest == Tail(run.steps)
    IN IF ~r.ok
       THEN Run(after_loop(rest, r.ctx), r.ctx, rest, run.effects \o r.eff,
                run.log \o <<Message(step, "start"), Message(step, "error")>>)
       ELSE IF ~message.ok
       THEN Run("failed", r.ctx, rest, run.effects \o r.eff,
                run.log \o <<Message(step, "start"), Message(step, "error")>>)
       ELSE Run(after_loop(rest, r.ctx), r.ctx, rest, run.effects \o r.eff,
                run.log \o <<Message(step, "start"), Message(step, "success")>>)

\* A turn of the loop once the step has returned r and its success message is
\* message: the `?` on each, and after the last step the tail of execute
after_execute(run, r, message) ==
    LET step == Head(run.steps)
        rest == Tail(run.steps)
    IN IF ~r.ok
       THEN Run("failed", r.ctx, rest, run.effects \o r.eff,
                run.log \o <<Message(step, "start"), Message(step, "error")>>)
       ELSE IF ~message.ok
       THEN Run("failed", r.ctx, rest, run.effects \o r.eff,
                run.log \o <<Message(step, "start"), Message(step, "error")>>)
       ELSE Run(after_loop(rest, r.ctx), r.ctx, rest, run.effects \o r.eff,
                run.log \o <<Message(step, "start"), Message(step, "success")>>)

\* One turn of the loop of execute for the step at the head of the queue:
\* started is what its start_message returned, r what its execute returned and
\* message what its success_message returned
ReleaseExecutor_step(run, started, r, message) ==
    IF ~started.ok
    THEN Run("failed", run.ctx, Tail(run.steps), run.effects, Append(run.log, Message(Head(run.steps), "error")))
    ELSE after_execute(run, r, message)

\* The body of the loop of execute on its own: what the three calls of a step,
\* each followed by `?`, leave as the result of the turn
ReleaseExecutor_turn(started, r, message) ==
    IF ~started.ok THEN [ok |-> FALSE, eff |-> <<>>, err |-> started.err]
    ELSE IF ~r.ok THEN [ok |-> FALSE, eff |-> r.eff, err |-> r.err]
    ELSE IF ~message.ok THEN [ok |-> FALSE, eff |-> r.eff, err |-> message.err]
    ELSE [ok |-> TRUE, eff |-> r.eff]

---------------------------------------------------------------------------
(* Inputs: configurations, workspaces and answers of the collaborators *)

Package(id, name, ver, publish, deps, targets) ==
    [id |-> id, name |-> name, version |-> ver, publish |-> publish, dependencies |-> deps, targets |-> targets]

Dependency(name, kind, req) == [name |-> name, kind |-> kind, req |-> req]

\* The release section with serde's defaults, no registry and no github part
ReleaseDefaults ==
    [check_version_raised |-> TRUE,
     allow_non_path_dev_dependencies |-> TRUE,
     registry |-> None,
     publish_interval_seconds |-> default_publish_interval_seconds,
     github |-> None]

BaseConfig ==
    [workspace |-> [root_crate |-> "root"],
     github |-> None,
     changelog |-> None,
     artifacts |-> None,
     release |-> Some(ReleaseDefaults)]

\* The answers of a machine on which Init succeeds with the metadata md
GoodInitAnswer(md) ==
    [registry_token |-> Some("token"),
     github_token |-> Some("gh-token"),
     git_installed |-> TRUE,
     commit |-> Ok("c0ffee1"),
     metadata |-> Ok(md)]

\* The context after an Init step that read the metadata md
AfterInit(config, dry_run, nopublish, md) ==
    Init_execute(ReleaseContext_new(config, dry_run, nopublish), GoodInitAnswer(md)).ctx

\* A workspace as a dependency graph: packages 1..MaxPkgs, the first nm of them
\* members, listed in ascending or descending order; g[i] the packages i depends
\* on, declared in ascending order, which is the order of the listing or its opposite
GraphMd(nm, g, rev, unpub) ==
    LET order(S) == IF rev THEN Reverse(Ascending(S)) ELSE Ascending(S)
        dep(i, j) == Dependency(Name(j), IF j > i THEN "normal" ELSE "dev", <<>>)
        pkg(i) == Package(i, Name(i), 1,
                          IF i \in unpub THEN Some({}) ELSE IF i % 2 = 1 THEN None ELSE Some({CRATES_IO_REGISTRY_NAME}),
                          [k \in DOMAIN Ascending(g[i]) |-> dep(i, Ascending(g[i])[k])],
                          <<"lib">>)
    IN [packages |-> [i \in Ids |-> pkg(i)],
        workspace_members |-> order(1..nm),
        resolve |-> Some([nodes |-> [i \in Ids |-> [id |-> i, dependencies |-> Ascending(g[i])]]])]

\* The graphs over nm members: no package depends on itself, and no edge leaves a
\* package outside the workspace
Graphs(nm) == {h \in [Ids -> SUBSET Ids] : \A i \in Ids : i \notin h[i] /\ (i > nm => h[i] = {})}

\* Version requirements: none, or one `=v` comparator
AnyReq == [comparators |-> <<>>]
EqReq(v) == [comparators |-> <<[op |-> "=", v |-> v]>>]
Reqs == {AnyReq} \cup {EqReq(v) : v \in Versions}

Kinds == {"normal", "build", "dev"}

\* Allow-sets: unset, `publish = false`, and lists naming one registry
RootPublishOptions == {None, Some({}), Some({"alt"})}
LibPublishOptions == {None, Some({}), Some({CRATES_IO_REGISTRY_NAME}), Some({"alt"})}

\* A workspace of two members, root and lib, and the external package serde:
\* their versions, allow-sets and declared dependencies vary
CheckMd(vr, pr, dr, vl, pl, dl) ==
    LET idOf(n) == CHOOSE i \in 1..3 : <<"root", "lib", "serde">>[i] = n
        resolved(deps) == [k \in DOMAIN deps |-> idOf(deps[k].name)]
    IN [packages |-> <<Package(1, "root", vr, pr, dr, <<"lib">>),
                       Package(2, "lib", vl, pl, dl, <<"lib">>),
                       Package(3, "serde", 1, None, <<>>, <<"lib">>)>>,
        workspace_members |-> <<1, 2>>,
        resolve |-> Some([nodes |-> <<[id |-> 1, dependencies |-> resolved(dr)],
                                      [id |-> 2, dependencies |-> resolved(dl)],
                                      [id |-> 3, dependencies |-> <<>>]>>])]

RootDepOptions ==
    {<<>>, <<Dependency("lib", "dev", EqReq(1))>>, <<Dependency("serde", "normal", EqReq(1))>>}

LibDepOptions ==
    {<<>>, <<Dependency("serde", "dev", EqReq(1))>>} \cup {<<Dependency("root", k, r)>> : k \in Kinds, r \in Reqs}

\* The release sections that differ in what the validator reads
CheckConfigs ==
    {cfg \in {[BaseConfig EXCEPT !.release = Some([ReleaseDefaults EXCEPT
                                                     !.check_version_raised = raised,
                                                     !.allow_non_path_dev_dependencies = allow,
                                                     !.registry = registry])] :
                raised \in BOOLEAN, allow \in BOOLEAN, registry \in {None, Some("alt")}} :
        Config_validate(cfg).ok}

\* The release.github section: serde's defaults for the templates
GithubRelease(check_commit_pushed, create_tag, create_release_page, upload_artifacts) ==
    [check_commit_pushed |-> check_commit_pushed,
     create_tag |-> create_tag,
     tag_name_template |-> default_tag_name_template,
     create_release_page |-> create_release_page,
     release_page_upload_artifacts |-> upload_artifacts,
     release_page_title_template |-> default_release_page_title_template,
     release_page_body_template |-> default_release_page_body_template,
     print_to_stdout |-> FALSE]

ArtifactsOptions ==
    {None} \cup {Some([directory |-> "dist", check_not_empty |-> check]) : check \in BOOLEAN}

MarkedChangelog ==
    [file |-> "CHANGELOG.md",
     start_marker_template |-> Some(<<Lit("begin "), Field("version")>>),
     end_marker_template |-> Some(<<Lit("end "), Field("version")>>),
     print_to_stdout |-> FALSE,
     allow_empty_changelog |-> FALSE]

ChangelogOptions ==
    {None, Some(MarkedChangelog),
     Some([MarkedChangelog EXCEPT !.start_marker_template = None, !.end_marker_template = None]),
     Some([MarkedChangelog EXCEPT !.end_marker_template = None])}

GithubReleaseOptions ==
    {None} \cup {Some(GithubRelease(pushed, tag, page, upload)) : pushed, tag, page, upload \in BOOLEAN}

ReleaseOptions ==
    {None} \cup {Some([ReleaseDefaults EXCEPT !.check_version_raised = raised, !.registry = registry,
                                               !.publish_interval_seconds = interval, !.github = github]) :
                    raised \in BOOLEAN, registry \in {None, Some("alt")},
                    interval \in {default_publish_interval_seconds, 5}, github \in GithubReleaseOptions}

\* Every combination of the sections and flags above
AllConfigs ==
    {[workspace |-> [root_crate |-> "root"], github |-> github, changelog |-> changelog,
      artifacts |-> artifacts_, release |-> release] :
        github \in {None, Some([repo |-> "owner/repo"])}, changelog \in ChangelogOptions,
        artifacts_ \in ArtifactsOptions, release \in ReleaseOptions}

\* The configuration with every section present and every step enabled
FullConfig ==
    [workspace |-> [root_crate |-> "root"],
     github |-> Some([repo |-> "owner/repo"]),
     changelog |-> Some(MarkedChangelog),
     artifacts |-> Some([directory |-> "dist", check_not_empty |-> TRUE]),
     release |-> Some([ReleaseDefaults EXCEPT !.github = Some(GithubRelease(TRUE, TRUE, TRUE, TRUE))])]

\* The settings of a configuration one by one; a flag of an absent section
\* counts as set
Settings(config) ==
    LET release == config.release
        github == IF release.some THEN release.val.github ELSE None
        flag(name) == IF github.some THEN github.val[name] ELSE TRUE
    IN <<config.github, config.changelog, config.artifacts, release.some,
         IF release.some THEN release.val.check_version_raised ELSE TRUE,
         IF release.some THEN release.val.registry ELSE None,
         IF release.some THEN release.val.publish_interval_seconds ELSE default_publish_interval_seconds,
         IF release.some THEN github.some ELSE TRUE,
         flag("check_commit_pushed"), flag("create_tag"), flag("create_release_page"),
         flag("release_page_upload_artifacts")>>

\* The configurations a run can be given, those that validation rejects
\* included: FullConfig with up to MaxDeviations settings changed
Configs ==
    {config \in AllConfigs :
        Cardinality({i \in DOMAIN Settings(config) : Settings(config)[i] # Settings(FullConfig)[i]}) <= MaxDeviations}

\* The workspace of a run: lib depends on the root crate and is listed first
PipelineMd(root, bin, vl) ==
    [packages |-> <<Package(2, "lib", vl, None, <<Dependency(root, "normal", EqReq(MaxVer))>>, <<"lib">>),
                    Package(1, root, MaxVer, None, <<>>, IF bin THEN <<"lib", "bin">> ELSE <<"lib">>),
                    Package(3, "serde", 1, None, <<>>, <<"lib">>)>>,
     workspace_members |-> <<2, 1>>,
     resolve |-> Some([nodes |-> <<[id |-> 2, dependencies |-> <<1>>],
                                   [id |-> 1, dependencies |-> <<>>],
                                   [id |-> 3, dependencies |-> <<>>]>>])]

\* A workspace of n members at the pending version, each one depending on the
\* one before it, the root crate being the first; the metadata lists them last first
ChainMd(n) ==
    LET pkg(i) == Package(i, Name(i), MaxVer, None,
                          IF i = 1 THEN <<>> ELSE <<Dependency(Name(i - 1), "normal", EqReq(MaxVer))>>,
                          <<"lib">>)
    IN [packages |-> [k \in 1..n |-> pkg(n + 1 - k)],
        workspace_members |-> [k \in 1..n |-> n + 1 - k],
        resolve |-> Some([nodes |-> [k \in 1..n |->
                                       [id |-> n + 1 - k,
                                        dependencies |-> IF k = n THEN <<>> ELSE <<n - k>>]]])]

PipelineMds ==
    {PipelineMd("root", bin, vl) : bin \in BOOLEAN, vl \in Versions}
        \cup {PipelineMd("other", FALSE, MaxVer)}
        \cup {ChainMd(n) : n \in 1..MaxPkgs}

InitAnswers ==
    LET good == GoodInitAnswer(PipelineMd("root", FALSE, MaxVer))
    IN {GoodInitAnswer(md) : md \in PipelineMds}
        \cup {[good EXCEPT !.registry_token = None], [good EXCEPT !.github_token = None],
              [good EXCEPT !.git_installed = FALSE], [good EXCEPT !.commit = Err("git rev-parse failed")],
              [good EXCEPT !.metadata = Err("cargo metadata failed")]}

Entry(path, is_file) == [path |-> path, is_file |-> is_file]

CollectArtifactsAnswers ==
    {[exists |-> FALSE, entries |-> Ok(<<>>)], [exists |-> TRUE, entries |-> Err("read_dir failed")]}
        \cup {[exists |-> TRUE, entries |-> Ok(entries)] :
                entries \in {<<>>, <<Entry("app.tar.gz", TRUE)>>, <<Entry("debug", FALSE), Entry("app.tar.gz", TRUE)>>}}

\* The files a changelog can be: the markers as the step renders them for the
\* pending version, or the markers of another version
CaptureChangelogAnswers(c) ==
    LET marker(word, v) == <<Rendered(word, <<>>), Rendered(ToString(v), <<>>)>>
        v == IF c.version.some THEN c.version.val ELSE 1
        title == ChangelogLine("# Changelog", {})
        begin == ChangelogLine("## begin", {marker("begin ", v)})
        entry == ChangelogLine("- fixed", {})
        end == ChangelogLine("## end", {marker("end ", v)})
    IN {[file |-> Err("No such file")]}
        \cup {[file |-> Ok(lines)] : lines \in {<<title, begin, entry, end>>, <<begin, end>>, <<title, entry, end>>}}

ValidateCommitPushedToGithubAnswers == {[pushed |-> pushed] : pushed \in BOOLEAN}

CargoPublishAnswers(validate, c) ==
    LET ordered_packages == ordered_packages_to_publish(c)
    IN IF ~ordered_packages.ok THEN {[fail_at |-> 0]}
       ELSE {[fail_at |-> k] : k \in 0..Len(publish_invoked(ordered_packages.val, is_dry_run(c) \/ validate))}

CreateTagOnGithubAnswers == {[created |-> created] : created \in BOOLEAN}

CreateGithubReleaseAnswers(c) ==
    {[created |-> FALSE, fail_at |-> 0]}
        \cup {[created |-> TRUE, fail_at |-> k] : k \in 0..(IF c.artifacts.some THEN Len(c.artifacts.val) ELSE 0)}

---------------------------------------------------------------------------
(* The functions of cargo.rs and context.rs applied on their own *)

NoCall == [fn |-> "none"]

Call_sort_workspace ==
    /\ pc = "fn"
    /\ ret' = [fn |-> "sort_workspace", val |-> sort_workspace(cargo_metadata(ctx).val)]
    /\ UNCHANGED <<pc, ctx, steps, effects, log, twin>>

Call_packages_to_publish ==
    /\ pc = "fn"
    /\ ret' = [fn |-> "packages_to_publish", val |-> packages_to_publish(ctx)]
    /\ UNCHANGED <<pc, ctx, steps, effects, log, twin>>

Call_ordered_packages_to_publish ==
    /\ pc = "fn"
    /\ ret' = [fn |-> "ordered_packages_to_publish", val |-> ordered_packages_to_publish(ctx)]
    /\ UNCHANGED <<pc, ctx, steps, effects, log, twin>>

InitSort ==
    /\ pc = "fn"
    /\ \E nm \in {MaxPkgs - 1, MaxPkgs} : \E g \in Graphs(nm) : \E rev \in BOOLEAN : \E unpub \in SUBSET (1..(MaxPkgs - 1)) :
          ctx = AfterInit(BaseConfig, TRUE, FALSE, GraphMd(nm, g, rev, unpub))
    /\ steps = <<>>
    /\ effects = <<>>
    /\ log = <<>>
    /\ twin = None
    /\ ret = NoCall

NextSort ==
    \/ Call_sort_workspace
    \/ Call_packages_to_publish
    \/ Call_ordered_packages_to_publish

SpecSort == InitSort /\ [][NextSort]_vars

---------------------------------------------------------------------------
(* The checks of version.rs applied on their own *)

Call_check_registry_consistency ==
    /\ pc = "fn"
    /\ ret' = [fn |-> "check_registry_consistency", val |-> check_registry_consistency(ctx)]
    /\ UNCHANGED <<pc, ctx, steps, effects, log, twin>>

Call_check_version_raised ==
    /\ pc = "fn"
    /\ \E ans \in VaidateVersion_answers(ctx) :
        ret' = [fn |-> "check_version_raised", arg |-> ans, val |-> check_version_raised(version(ctx).val, ctx, ans)]
    /\ UNCHANGED <<pc, ctx, steps, effects, log, twin>>

Call_check_dev_dependencies ==
    /\ pc = "fn"
    /\ ret' = [fn |-> "check_dev_dependencies", val |-> check_dev_dependencies(ctx)]
    /\ UNCHANGED <<pc, ctx, steps, effects, log, twin>>

Call_check_version_consistency ==
    /\ pc = "fn"
    /\ ret' = [fn |-> "check_version_consistency", val |-> check_version_consistency(version(ctx).val, ctx)]
    /\ UNCHANGED <<pc, ctx, steps, effects, log, twin>>

Call_VaidateVersion_execute ==
    /\ pc = "fn"
    /\ \E ans \in VaidateVersion_answers(ctx) :
        ret' = [fn |-> "VaidateVersion::execute", arg |-> ans, val |-> VaidateVersion_execute(ctx, ans)]
    /\ UNCHANGED <<pc, ctx, steps, effects, log, twin>>

InitCheck ==
    /\ pc = "fn"
    /\ \E cfg \in CheckConfigs : \E vr, vl \in Versions : \E pr \in RootPublishOptions : \E pl \in LibPublishOptions :
       \E dr \in RootDepOptions : \E dl \in LibDepOptions :
          ctx = AfterInit(cfg, TRUE, FALSE, CheckMd(vr, pr, dr, vl, pl, dl))
    /\ steps = <<>>
    /\ effects = <<>>
    /\ log = <<>>
    /\ twin = None
    /\ ret = NoCall

NextCheck ==
    \/ Call_check_registry_consistency
    \/ Call_check_dev_dependencies
    \/ Call_check_version_consistency
    \/ Call_VaidateVersion_execute

SpecCheck == InitCheck /\ [][NextCheck]_vars

\* The version-raise check on its own: the contexts in which it differs
InitRaise ==
    /\ pc = "fn"
    /\ \E cfg \in CheckConfigs : \E vr \in Versions : \E pr \in RootPublishOptions : \E dr \in RootDepOptions :
          ctx = AfterInit(cfg, TRUE, FALSE, CheckMd(vr, pr, dr, vr, None, <<>>))
    /\ steps = <<>>
    /\ effects = <<>>
    /\ log = <<>>
    /\ twin = None
    /\ ret = NoCall

NextRaise == Call_check_version_raised

SpecRaise == InitRaise /\ [][NextRaise]_vars

---------------------------------------------------------------------------
(* The steps applied on their own, to contexts in which fields are unset *)

\* The fields of ReleaseContext that a step fills for the steps after it
FilledFields == {"current_commit", "metadata", "version", "github_client", "artifacts", "github_release_tag"}

\* The context a run has before its release-page step: Init, CollectArtifacts
\* and CreateTagOnGithub have filled their fields
FilledContext(config, dry_run) ==
    LET c0 == AfterInit(config, dry_run, FALSE, ChainMd(2))
        c1 == CollectArtifacts_execute(c0, [exists |-> TRUE, entries |-> Ok(<<Entry("app.tar.gz", TRUE)>>)]).ctx
    IN CreateTagOnGithub_execute(c1, [created |-> TRUE]).ctx

\* The context c with the fields of the set unset left as ReleaseContext::new leaves them
Without(c, unset) == [f \in DOMAIN c |-> IF f \in unset THEN None ELSE c[f]]

StepConfigs ==
    {[FullConfig EXCEPT !.release = Some([ReleaseDefaults EXCEPT !.github = Some(GithubRelease(TRUE, TRUE, TRUE, upload))])] :
        upload \in BOOLEAN}

Call_accessors ==
    /\ pc = "fn"
    /\ ret' = [fn |-> "accessors",
               val |-> [current_commit |-> current_commit(ctx),
                        metadata |-> cargo_metadata(ctx),
                        version |-> version(ctx),
                        github_client |-> github_client(ctx),
                        artifacts |-> artifacts(ctx),
                        github_release_tag |-> github_release_tag(ctx)]]
    /\ UNCHANGED <<pc, ctx, steps, effects, log, twin>>

\* The turn of the executor for one step, kept with the answer it was given
Returned(step, ans, started, r, message) ==
    /\ pc = "fn"
    /\ ret' = [fn |-> step, arg |-> ans, val |-> ReleaseExecutor_turn(started, r, message)]
    /\ UNCHANGED <<pc, ctx, steps, effects, log, twin>>

Turn_CaptureChangelog ==
    \E ans \in CaptureChangelogAnswers(ctx) :
        Returned("CaptureChangelog", ans, CaptureChangelog_start_message(ctx),
                 CaptureChangelog_execute(ctx, ans), CaptureChangelog_success_message(ctx))

Turn_ValidateCommitPushedToGithub ==
    \E ans \in ValidateCommitPushedToGithubAnswers :
        Returned("ValidateCommitPushedToGithub", ans, ValidateCommitPushedToGithub_start_message(ctx),
                 ValidateCommitPushedToGithub_execute(ctx, ans), ValidateCommitPushedToGithub_success_message(ctx))

Turn_VaidateVersion ==
    \E ans \in VaidateVersion_answers(ctx) :
        Returned("VaidateVersion", ans, VaidateVersion_start_message(ctx),
                 VaidateVersion_execute(ctx, ans), VaidateVersion_success_message(ctx))

Turn_CargoPublish_validate_only ==
    \E ans \in CargoPublishAnswers(TRUE, ctx) :
        Returned("CargoPublish::validate_only", ans, CargoPublish_start_message(TRUE, ctx),
                 CargoPublish_execute(TRUE, ctx, ans), CargoPublish_success_message(TRUE, ctx))

Turn_CargoPublish_new ==
    \E ans \in CargoPublishAnswers(FALSE, ctx) :
        Returned("CargoPublish::new", ans, CargoPublish_start_message(FALSE, ctx),
                 CargoPublish_execute(FALSE, ctx, ans), CargoPublish_success_message(FALSE, ctx))

Turn_CreateTagOnGithub ==
    \E ans \in CreateTagOnGithubAnswers :
        Returned("CreateTagOnGithub", ans, CreateTagOnGithub_start_message(ctx),
                 CreateTagOnGithub_execute(ctx, ans), CreateTagOnGithub_success_message(ctx))

Turn_CreateGithubRelease ==
    \E ans \in CreateGithubReleaseAnswers(ctx) :
        Returned("CreateGithubRelease", ans, CreateGithubRelease_start_message(ctx),
                 CreateGithubRelease_execute(ctx, ans), CreateGithubRelease_success_message(ctx))

InitStep ==
    /\ pc = "fn"
    /\ \E config \in StepConfigs : \E dry_run \in BOOLEAN : \E unset \in SUBSET FilledFields :
          ctx = Without(FilledContext(config, dry_run), unset)
    /\ steps = <<>>
    /\ effects = <<>>
    /\ log = <<>>
    /\ twin = None
    /\ ret = NoCall

NextStep ==
    \/ Call_accessors
    \/ Turn_CaptureChangelog
    \/ Turn_ValidateCommitPushedToGithub
    \/ Turn_VaidateVersion
    \/ Turn_CargoPublish_validate_only
    \/ Turn_CargoPublish_new
    \/ Turn_CreateTagOnGithub
    \/ Turn_CreateGithubRelease

SpecStep == InitStep /\ [][NextStep]_vars

---------------------------------------------------------------------------
(* CaptureChangelog applied on its own, to changelog files with markers *)

\* The markers of MarkedChangelog rendered for the version v
RenderedMarker(word, v) == <<Rendered(word, <<>>), Rendered(ToString(v), <<>>)>>

\* The files of up to MaxLines lines; line k has the text k and contains the
\* begin marker, the end marker, both or none
ChangelogFiles(v) ==
    LET marks == SUBSET {RenderedMarker("begin ", v), RenderedMarker("end ", v)}
    IN UNION {{[k \in 1..n |-> ChangelogLine(k, choice[k])] : choice \in [1..n -> marks]} : n \in 0..MaxLines}

ChangelogConfigs ==
    {[FullConfig EXCEPT !.changelog = Some([MarkedChangelog EXCEPT !.allow_empty_changelog = allow])] :
        allow \in BOOLEAN}

\* The step runs once on the context
Call_CaptureChangelog_execute ==
    /\ pc = "fn"
    /\ ret = NoCall
    /\ \E lines \in ChangelogFiles(ctx.version.val) :
          ret' = [fn |-> "CaptureChangelog::execute", arg |-> [file |-> Ok(lines)],
                  val |-> CaptureChangelog_execute(ctx, [file |-> Ok(lines)])]
    /\ UNCHANGED <<pc, ctx, steps, effects, log, twin>>

InitChangelog ==
    /\ pc = "fn"
    /\ \E config \in ChangelogConfigs : \E dry_run \in BOOLEAN :
          ctx = AfterInit(config, dry_run, FALSE, ChainMd(1))
    /\ steps = <<>>
    /\ effects = <<>>
    /\ log = <<>>
    /\ twin = None
    /\ ret = NoCall

NextChangelog == Call_CaptureChangelog_execute

SpecChangelog == InitChangelog /\ [][NextChangelog]_vars

---------------------------------------------------------------------------
(* The loop of ReleaseExecutor::execute and the loops of CargoPublish::publish
   between their await points *)

\* a plausible slip: the future is spawned as a task and the loop goes on at once
awaited_spawned_detached(pending) == TRUE

\* `.await` on a future the loop has just made: the loop resumes once none is pending
awaited(pending) == pending = {}

PublishSteps == {"CargoPublish::validate_only", "CargoPublish::new"}

\* Where the loops stand: the steps whose execute has not returned, the cargo
\* processes spawned and not yet waited for, the packages the publish loop has
\* still to visit, its flag previously_published and whether the sleep before
\* the next publish has returned
Frame(executing, in_flight, left, previously_published, slept) ==
    [fn |-> "await", executing |-> executing, in_flight |-> in_flight, left |-> left,
     previously_published |-> previously_published, slept |-> slept]

\* mod.rs 100-101: the start message is printed and execute is called
Await_start_step ==
    /\ pc = "running"
    /\ steps # <<>>
    /\ awaited(ret.executing)
    /\ LET step == Head(steps)
           ordered_packages == ordered_packages_to_publish(ctx)
       IN /\ log' = Append(log, Message(step, "start"))
          /\ steps' = Tail(steps)
          /\ ret' = Frame(ret.executing \cup {step}, ret.in_flight,
                          IF step \in PublishSteps /\ ordered_packages.ok
                          THEN publish_invoked(ordered_packages.val, is_dry_run(ctx) \/ step = "CargoPublish::validate_only")
                          ELSE <<>>,
                          FALSE, FALSE)
    /\ UNCHANGED <<pc, ctx, effects, twin>>

\* mod.rs 101-102: execute of a step other than the publish steps returns, and
\* `?` ends the run on an error; Init leaves the metadata of a workspace
Await_return_step ==
    /\ pc = "running"
    /\ \E step \in ret.executing \ PublishSteps : \E ok \in BOOLEAN : \E n \in 1..MaxPkgs :
          /\ ret' = [ret EXCEPT !.executing = @ \ {step}]
          /\ log' = Append(log, Message(step, IF ok THEN "success" ELSE "error"))
          /\ pc' = IF ~ok THEN "failed" ELSE IF steps = <<>> THEN "done" ELSE "running"
          /\ ctx' = IF ok /\ step = "Init" THEN Init_execute(ctx, GoodInitAnswer(ChainMd(n))).ctx ELSE ctx
    /\ UNCHANGED <<steps, effects, twin>>

\* cargo.rs 55-61: the wait before the next publish of the real loop
Await_publish_sleep ==
    /\ pc = "running"
    /\ ret.executing \cap PublishSteps # {}
    /\ ret.left # <<>>
    /\ awaited(ret.in_flight)
    /\ ret.previously_published /\ ~ret.slept
    /\ effects' = Append(effects, [op |-> "sleep", seconds |-> release_config(ctx).val.publish_interval_seconds])
    /\ ret' = [ret EXCEPT !.slept = TRUE]
    /\ UNCHANGED <<pc, ctx, steps, log, twin>>

\* cargo.rs 44, 63 and 126-128: cargo is spawned for the next package
Await_publish_spawn ==
    /\ pc = "running"
    /\ ret.executing \cap PublishSteps # {}
    /\ ret.left # <<>>
    /\ awaited(ret.in_flight)
    /\ ret.previously_published => ret.slept
    /\ effects' = Append(effects, [op |-> "spawn", manifest |-> Head(ret.left).name])
    /\ ret' = [ret EXCEPT !.in_flight = @ \cup {Head(ret.left).name}, !.left = Tail(@), !.slept = FALSE]
    /\ UNCHANGED <<pc, ctx, steps, log, twin>>

\* cargo.rs 129-135 and 64: the cargo process exits; a failure ends the step
\* and the run, a success sets previously_published in the real loop
Await_publish_exit ==
    /\ pc = "running"
    /\ \E step \in ret.executing \cap PublishSteps : \E name \in ret.in_flight : \E ok \in BOOLEAN :
          /\ effects' = Append(effects, [op |-> "exit", manifest |-> name, ok |-> ok])
          /\ ret' = [ret EXCEPT !.in_flight = @ \ {name},
                                !.executing = IF ok THEN @ ELSE @ \ {step},
                                !.previously_published = @ \/ (ok /\ step = "CargoPublish::new")]
          /\ log' = IF ok THEN log ELSE Append(log, Message(step, "error"))
          /\ pc' = IF ok THEN pc ELSE "failed"
    /\ UNCHANGED <<ctx, steps, twin>>

\* cargo.rs 49, 68 and mod.rs 102: the publish loop is over and the step returns Ok
Await_return_publish ==
    /\ pc = "running"
    /\ \E step \in ret.executing \cap PublishSteps :
          /\ ret.left = <<>>
          /\ awaited(ret.in_flight)
          /\ ret' = [ret EXCEPT !.executing = @ \ {step}]
          /\ log' = Append(log, Message(step, IF ordered_packages_to_publish(ctx).ok THEN "success" ELSE "error"))
          /\ pc' = IF ~ordered_packages_to_publish(ctx).ok THEN "failed"
                   ELSE IF steps = <<>> THEN "done" ELSE "running"
    /\ UNCHANGED <<ctx, steps, effects, twin>>

InitAwait ==
    /\ pc = "running"
    /\ \E config \in StepConfigs : \E dry_run, nopublish \in BOOLEAN :
          /\ ctx = ReleaseContext_new(config, dry_run, nopublish)
          /\ steps = build_steps(ctx).val
    /\ effects = <<>>
    /\ log = <<>>
    /\ twin = None
    /\ ret = Frame({}, {}, <<>>, FALSE, FALSE)

NextAwait ==
    \/ Await_start_step
    \/ Await_return_step
    \/ Await_publish_sleep
    \/ Await_publish_spawn
    \/ Await_publish_exit
    \/ Await_return_publish

SpecAwait == InitAwait /\ [][NextAwait]_vars

---------------------------------------------------------------------------
(* Init applied on its own, to metadata that lists packages from outside the
   workspace beside its members *)

\* What `cargo metadata` prints for a workspace and its dependencies: package
\* i of the listing has the name, the version and the membership of entry i
ListedMd(entries) ==
    [packages |-> [i \in DOMAIN entries |->
                     Package(i, entries[i].name, entries[i].version, None, <<>>, <<"lib">>)],
     workspace_members |-> SelectSeq([i \in DOMAIN entries |-> IF entries[i].member THEN i ELSE 0],
                                     LAMBDA id : id # 0),
     resolve |-> Some([nodes |-> [i \in DOMAIN entries |-> [id |-> i, dependencies |-> <<>>]]])]

\* The listings of one to MaxPkgs packages named root or lib; a workspace has
\* a member and no two members of one name, a dependency can have the name of
\* a member
ListedMds ==
    LET entry == [name : {"root", "lib"}, version : Versions, member : BOOLEAN]
        listings == UNION {[1..n -> entry] : n \in 1..MaxPkgs}
    IN {ListedMd(entries) : entries \in
          {l \in listings :
              /\ \E i \in DOMAIN l : l[i].member
              /\ \A i, j \in DOMAIN l : (i # j /\ l[i].member /\ l[j].member) => l[i].name # l[j].name}}

\* The step runs once on the new context
Call_Init_execute ==
    /\ pc = "fn"
    /\ ret = NoCall
    /\ \E md \in ListedMds :
          ret' = [fn |-> "Init::execute", arg |-> md, val |-> Init_execute(ctx, GoodInitAnswer(md))]
    /\ UNCHANGED <<pc, ctx, steps, effects, log, twin>>

InitListed ==
    /\ pc = "fn"
    /\ \E dry_run \in BOOLEAN : ctx = ReleaseContext_new(FullConfig, dry_run, FALSE)
    /\ steps = <<>>
    /\ effects = <<>>
    /\ log = <<>>
    /\ twin = None
    /\ ret = NoCall

NextListed == Call_Init_execute

SpecListed == InitListed /\ [][NextListed]_vars

---------------------------------------------------------------------------
(* CollectArtifacts applied on its own, to folders with files and sub-folders *)

\* What read_dir lists for a folder of up to MaxPkgs entries, each a regular
\* file or a sub-folder
FolderListings ==
    LET entry == {Entry(path, is_file) : path \in {"app.tar.gz", "debug"}, is_file \in BOOLEAN}
    IN UNION {[1..n -> entry] : n \in 0..MaxPkgs}

FolderAnswers ==
    {[exists |-> FALSE, entries |-> Ok(<<>>)], [exists |-> TRUE, entries |-> Err("read_dir failed")]}
        \cup {[exists |-> TRUE, entries |-> Ok(entries)] : entries \in FolderListings}

\* The step runs once on the context Init left
Call_CollectArtifacts_execute ==
    /\ pc = "fn"
    /\ ret = NoCall
    /\ \E ans \in FolderAnswers :
          ret' = [fn |-> "CollectArtifacts::execute", arg |-> ans, val |-> CollectArtifacts_execute(ctx, ans)]
    /\ UNCHANGED <<pc, ctx, steps, effects, log, twin>>

InitArtifacts ==
    /\ pc = "fn"
    /\ \E check \in BOOLEAN : \E dry_run \in BOOLEAN :
          ctx = AfterInit([FullConfig EXCEPT !.artifacts = Some([directory |-> "dist", check_not_empty |-> check])],
                          dry_run, FALSE, ChainMd(1))
    /\ steps = <<>>
    /\ effects = <<>>
    /\ log = <<>>
    /\ twin = None
    /\ ret = NoCall

NextArtifacts == Call_CollectArtifacts_execute

SpecArtifacts == InitArtifacts /\ [][NextArtifacts]_vars

---------------------------------------------------------------------------
(* main.rs and release/mod.rs: a run of `cargo monorepo release` *)

\* Command::run: dry run unless --confirm
Command_run(config, confirm, nopublish) == ReleaseExecutor_start(config, ~confirm, nopublish)

\* run of main.rs for a config file that parses: validation, then the command
run(config, confirm, nopublish) ==
    IF ~Config_validate(config).ok
    THEN Run("failed", ReleaseContext_new(config, ~confirm, nopublish), <<>>, <<>>, <<>>)
    ELSE Command_run(config, confirm, nopublish)

\* The run becomes next and its twin becomes twin_next
Become(next, twin_next) ==
    /\ pc' = next.pc
    /\ ctx' = next.ctx
    /\ steps' = next.steps
    /\ effects' = next.effects
    /\ log' = next.log
    /\ twin' = twin_next
    /\ UNCHANGED ret

\* The twin takes a validation step together with the run, fed the same answers
Together ==
    /\ twin.pc = "running"
    /\ twin.steps # <<>>
    /\ Head(twin.steps) = Head(steps)
    /\ Head(steps) \in ValidationSteps

\* The run takes the step at the head of its queue, and its twin takes it too
Advance(next, twin_next) == Become(next, IF Together THEN twin_next ELSE twin)

AtStep(step) == pc = "running" /\ steps # <<>> /\ Head(steps) = step

Start ==
    /\ pc = "start"
    /\ Become(run(ctx.config, ~ctx.dry_run, ctx.nopublish), run(ctx.config, ctx.dry_run, ctx.nopublish))

Step_Init ==
    /\ AtStep("Init")
    /\ \E ans \in InitAnswers :
          LET finish(r, runner) ==
                  ReleaseExecutor_step(runner, Init_start_message(runner.ctx),
                                       r, Init_success_message(r.ctx))
              turn(runner) == finish(Init_execute(runner.ctx, ans), runner)
          IN Advance(turn(Run(pc, ctx, steps, effects, log)), turn(twin))

Step_CollectArtifacts ==
    /\ AtStep("CollectArtifacts")
    /\ \E ans \in CollectArtifactsAnswers :
          LET finish(r, runner) ==
                  ReleaseExecutor_step(runner, CollectArtifacts_start_message(runner.ctx),
                                       r, CollectArtifacts_success_message(r.ctx))
              turn(runner) == finish(CollectArtifacts_execute(runner.ctx, ans), runner)
          IN Advance(turn(Run(pc, ctx, steps, effects, log)), turn(twin))

Step_CaptureChangelog ==
    /\ AtStep("CaptureChangelog")
    /\ \E ans \in CaptureChangelogAnswers(ctx) :
          LET finish(r, runner) ==
                  ReleaseExecutor_step(runner, CaptureChangelog_start_message(runner.ctx),
                                       r, CaptureChangelog_success_message(r.ctx))
              turn(runner) == finish(CaptureChangelog_execute(runner.ctx, ans), runner)
          IN Advance(turn(Run(pc, ctx, steps, effects, log)), turn(twin))

Step_ValidateCommitPushedToGithub ==
    /\ AtStep("ValidateCommitPushedToGithub")
    /\ \E ans \in ValidateCommitPushedToGithubAnswers :
          LET finish(r, runner) ==
                  ReleaseExecutor_step(runner, ValidateCommitPushedToGithub_start_message(runner.ctx),
                                       r, ValidateCommitPushedToGithub_success_message(r.ctx))
              turn(runner) == finish(ValidateCommitPushedToGithub_execute(runner.ctx, ans), runner)
          IN Advance(turn(Run(pc, ctx, steps, effects, log)), turn(twin))

Step_VaidateVersion ==
    /\ AtStep("VaidateVersion")
    /\ \E ans \in VaidateVersion_answers(ctx) :
          LET finish(r, runner) ==
                  ReleaseExecutor_step(runner, VaidateVersion_start_message(runner.ctx),
                                       r, VaidateVersion_success_message(r.ctx))
              turn(runner) == finish(VaidateVersion_execute(runner.ctx, ans), runner)
          IN Advance(turn(Run(pc, ctx, steps, effects, log)), turn(twin))

Step_CargoPublish_validate_only ==
    /\ AtStep("CargoPublish::validate_only")
    /\ \E ans \in CargoPublishAnswers(TRUE, ctx) :
          LET finish(r, runner) ==
                  ReleaseExecutor_step(runner, CargoPublish_start_message(TRUE, runner.ctx),
                                       r, CargoPublish_success_message(TRUE, r.ctx))
              turn(runner) == finish(CargoPublish_execute(TRUE, runner.ctx, ans), runner)
          IN Advance(turn(Run(pc, ctx, steps, effects, log)), turn(twin))

Step_CargoPublish_new ==
    /\ AtStep("CargoPublish::new")
    /\ \E ans \in CargoPublishAnswers(FALSE, ctx) :
          LET finish(r, runner) ==
                  ReleaseExecutor_step(runner, CargoPublish_start_message(FALSE, runner.ctx),
                                       r, CargoPublish_success_message(FALSE, r.ctx))
              turn(runner) == finish(CargoPublish_execute(FALSE, runner.ctx, ans), runner)
          IN Advance(turn(Run(pc, ctx, steps, effects, log)), turn(twin))

Step_CreateTagOnGithub ==
    /\ AtStep("CreateTagOnGithub")
    /\ \E ans \in CreateTagOnGithubAnswers :
          LET finish(r, runner) ==
                  ReleaseExecutor_step(runner, CreateTagOnGithub_start_message(runner.ctx),
                                       r, CreateTagOnGithub_success_message(r.ctx))
              turn(runner) == finish(CreateTagOnGithub_execute(runner.ctx, ans), runner)
          IN Advance(turn(Run(pc, ctx, steps, effects, log)), turn(twin))

Step_CreateGithubRelease ==
    /\ AtStep("CreateGithubRelease")
    /\ \E ans \in CreateGithubReleaseAnswers(ctx) :
          LET finish(r, runner) ==
                  ReleaseExecutor_step(runner, CreateGithubRelease_start_message(runner.ctx),
                                       r, CreateGithubRelease_success_message(r.ctx))
              turn(runner) == finish(CreateGithubRelease_execute(runner.ctx, ans), runner)
          IN Advance(turn(Run(pc, ctx, steps, effects, log)), turn(twin))

\* The command line and the config file of the run; the twin has the other mode
Init ==
    /\ pc = "start"
    /\ \E config \in Configs : \E confirm, nopublish \in BOOLEAN :
          /\ ctx = ReleaseContext_new(config, ~confirm, nopublish)
          /\ twin = Run("start", ReleaseContext_new(config, confirm, nopublish), <<>>, <<>>, <<>>)
    /\ steps = <<>>
    /\ effects = <<>>
    /\ log = <<>>
    /\ ret = NoCall

Next ==
    \/ Start
    \/ Step_Init
    \/ Step_CollectArtifacts
    \/ Step_CaptureChangelog
    \/ Step_ValidateCommitPushedToGithub
    \/ Step_VaidateVersion
    \/ Step_CargoPublish_validate_only
    \/ Step_CargoPublish_new
    \/ Step_CreateTagOnGithub
    \/ Step_CreateGithubRelease

Spec == Init /\ [][Next]_vars

---------------------------------------------------------------------------
(* Vocabulary of the properties *)

TheMetadata == ctx.metadata.val

Members == Range(TheMetadata.workspace_members)

PackageOf(id) == CHOOSE p \in Range(TheMetadata.packages) : p.id = id

\* A depends on B, both workspace members (the resolved graph sort_workspace reads)
MemberEdges ==
    {e \in Members \X Members :
        \E n \in Range(TheMetadata.resolve.val.nodes) : n.id = e[1] /\ Contains(n.dependencies, e[2])}

RECURSIVE HasCycle(_, _)
HasCycle(N, E) ==
    IF N = {} THEN FALSE
    ELSE LET leaves == {a \in N : \A b \in N : <<a, b>> \notin E}
         IN IF leaves = {} THEN TRUE ELSE HasCycle(N \ leaves, E)

IdsOf(pkgs) == [i \in DOMAIN pkgs |-> pkgs[i].id]

\* The publish candidates as the specification defines them
IsCandidate(p) == p.id \in Members /\ (~p.publish.some \/ p.publish.val # {})

CandidateIds == {p.id : p \in {q \in Range(TheMetadata.packages) : IsCandidate(q)}}

---------------------------------------------------------------------------
(* Properties *)

\* C1: in a workspace whose dependency graph has no cycle, sort_workspace returns
\* every dependency B of a member A (both members) at an earlier position than A.
C1_SortRespectsEdges ==
    (ret.fn = "sort_workspace" /\ ~HasCycle(Members, MemberEdges))
        => /\ ret.val.ok
           /\ \A e \in MemberEdges :
                /\ Position(ret.val.val, e[2]) > 0
                /\ Position(ret.val.val, e[2]) < Position(ret.val.val, e[1])

\* C1 witness: an acyclic workspace with a chain A -> B -> C was sorted, A being
\* listed before B among the members.
C1_Witness ==
    /\ ret.fn = "sort_workspace"
    /\ ~HasCycle(Members, MemberEdges)
    /\ \E a, b, c \in Members :
        /\ <<a, b>> \in MemberEdges /\ <<b, c>> \in MemberEdges
        /\ Position(TheMetadata.workspace_members, a) < Position(TheMetadata.workspace_members, b)

\* C2: the list returned by ordered_packages_to_publish is a subsequence of the
\* sort_workspace order: two candidates are in the same relative order in both.
C2_FilterKeepsOrder ==
    ret.fn = "ordered_packages_to_publish"
        => /\ ret.val.ok
           /\ LET out == IdsOf(ret.val.val)
                  sorted == sort_workspace(TheMetadata).val
              IN /\ NoDuplicates(out)
                 /\ \A i \in DOMAIN out : Position(sorted, out[i]) > 0
                 /\ \A i, j \in DOMAIN out : i < j <=> Position(sorted, out[i]) < Position(sorted, out[j])

\* C2 witness: a list of two candidates or more was returned, in an order that is
\* not the order of the metadata, with a non-candidate sorted between two of them.
C2_Witness ==
    /\ ret.fn = "ordered_packages_to_publish"
    /\ ret.val.ok
    /\ LET out == IdsOf(ret.val.val)
           sorted == sort_workspace(TheMetadata).val
       IN /\ Len(out) >= 2
          /\ out # IdsOf(packages_to_publish(ctx).val)
          /\ \E i, j, k \in DOMAIN sorted :
                i < j /\ j < k /\ Contains(out, sorted[i]) /\ ~Contains(out, sorted[j]) /\ Contains(out, sorted[k])

\* C3: packages_to_publish and ordered_packages_to_publish hold exactly the
\* workspace members whose publish allow-set is unset or non-empty, each once; a
\* package with an empty allow-set is in neither.
C3_CandidatesExact ==
    ret.fn \in {"packages_to_publish", "ordered_packages_to_publish"}
        => /\ ret.val.ok
           /\ Range(IdsOf(ret.val.val)) = CandidateIds
           /\ NoDuplicates(IdsOf(ret.val.val))
           /\ \A p \in Range(ret.val.val) : p = PackageOf(p.id)
           /\ \A p \in Range(TheMetadata.packages) :
                (p.publish.some /\ p.publish.val = {}) => ~Contains(IdsOf(ret.val.val), p.id)

\* C3 witness: the ordered list was returned for a workspace in which a member with
\* an empty allow-set is depended on by a candidate and depends on a candidate, and
\* a member with a non-empty allow-set is a candidate; a non-member is left out.
C3_Witness ==
    /\ ret.fn = "ordered_packages_to_publish"
    /\ \E a, b, c \in Members :
        /\ <<a, b>> \in MemberEdges /\ <<b, c>> \in MemberEdges
        /\ PackageOf(b).publish = Some({})
        /\ a \in CandidateIds /\ c \in CandidateIds
    /\ \E p \in Range(TheMetadata.packages) : p.id \in CandidateIds /\ p.publish.some
    /\ \E p \in Range(TheMetadata.packages) : p.id \notin Members

---------------------------------------------------------------------------
(* Vocabulary of the version checks *)

Pending == ctx.version.val

Candidates == {p \in Range(TheMetadata.packages) : IsCandidate(p)}

MemberNames == {p.name : p \in {q \in Range(TheMetadata.packages) : q.id \in Members}}

DepsOf(p) == Range(p.dependencies)

InWorkspace(dep) == dep.name \in MemberNames

Matches(dep, ver) == \A cmp \in Range(dep.req.comparators) : cmp.op = "=" => ver = cmp.v

TargetRegistry ==
    IF ctx.config.release.val.registry.some THEN ctx.config.release.val.registry.val ELSE "crates-io"

\* The packages a check printed a violation for
Reported(out) == {out[i].pkg : i \in {j \in DOMAIN out : out[j].kind = "bad"}}

NamesOf(pkgs) == {<<p.name, p.version>> : p \in pkgs}

\* Whether the check with the header hdr started, by the header it prints first
Started(out, hdrs) == \E i \in DOMAIN out : out[i].kind = "header" /\ out[i].check \in hdrs

CheckHeaders == <<{"registry"}, {"raise", "raise-skipped"}, {"dev"}, {"version"}>>

\* The results of the four checks on the current context, in the order of execute
CheckPasses(ans) ==
    <<check_registry_consistency(ctx).ok,
      check_version_raised(Pending, ctx, ans).ok,
      check_dev_dependencies(ctx).ok,
      check_version_consistency(Pending, ctx).ok>>

\* The dev-dependency check prints its header unless the configuration disables it
Prints(k) == k # 3 \/ ~ctx.config.release.val.allow_non_path_dev_dependencies

\* The version-raise check was applied with the check enabled in the configuration
RaiseChecked == ret.fn = "check_version_raised" /\ ctx.config.release.val.check_version_raised

\* The version-raise check was applied with the check disabled
RaiseSkipped == ret.fn = "check_version_raised" /\ ~ctx.config.release.val.check_version_raised

\* What the registry answered to the lookup of the root crate
LastReleased == ret.arg.last_released

---------------------------------------------------------------------------
(* Properties of the version validator *)

\* C7 as stated: every execution of the version-validation step runs all four
\* checks, and the step fails iff one of them failed.
C7_RunsAllChecks ==
    ret.fn = "VaidateVersion::execute"
        => /\ \A k \in 1..4 : Prints(k) => Started(ret.val.out, CheckHeaders[k])
           /\ ret.val.ok <=> \A k \in 1..4 : CheckPasses(ret.arg)[k]

\* C7 amended: the step runs the checks in the order registry consistency, version
\* raise, dev-dependencies, version consistency and stops at the first one that
\* fails: no later check is started; it succeeds iff all four pass.
C7_StopsAtFirstFailure ==
    ret.fn = "VaidateVersion::execute"
        => /\ ret.val.ok <=> \A k \in 1..4 : CheckPasses(ret.arg)[k]
           /\ \A k \in 1..4 :
                /\ (\E j \in 1..(k - 1) : ~CheckPasses(ret.arg)[j]) => ~Started(ret.val.out, CheckHeaders[k])
                /\ ((\A j \in 1..(k - 1) : CheckPasses(ret.arg)[j]) /\ Prints(k)) => Started(ret.val.out, CheckHeaders[k])

\* C7 witness: the step was executed on a workspace that fails the registry check
\* and would fail the version-consistency check too.
C7_Witness ==
    /\ ret.fn = "VaidateVersion::execute"
    /\ ~ret.val.ok
    /\ ~CheckPasses(ret.arg)[1]
    /\ ~CheckPasses(ret.arg)[4]

\* C8: the version-consistency check fails whenever a publish candidate has a
\* version other than the pending one; members that are not candidates are not
\* compared: no verdict is printed for them and their version cannot fail the check.
C8_VersionConsistency ==
    ret.fn = "check_version_consistency"
        => /\ (\E p \in Candidates : p.version # Pending) => ~ret.val.ok
           /\ \A i \in DOMAIN ret.val.out :
                ret.val.out[i].kind # "header" => ret.val.out[i].pkg \in NamesOf(Candidates)
           /\ (\A p \in Candidates : p.version = Pending /\ \A dep \in DepsOf(p) : InWorkspace(dep) => Matches(dep, Pending))
                => ret.val.ok

\* C8 witness: the check passed although a member that is not a candidate has
\* another version than the pending one.
C8_Witness ==
    /\ ret.fn = "check_version_consistency"
    /\ ret.val.ok
    /\ \E p \in Range(TheMetadata.packages) : p.id \in Members /\ ~IsCandidate(p) /\ p.version # Pending

\* C9 as stated: the requirements that must match the pending version are those of
\* the in-workspace dependencies of kind normal or build; development ones are exempt.
C9_NonDevOnly ==
    ret.fn = "check_version_consistency"
        => (ret.val.ok <=>
                \A p \in Candidates :
                    /\ p.version = Pending
                    /\ \A dep \in DepsOf(p) : (InWorkspace(dep) /\ dep.kind \in {"normal", "build"}) => Matches(dep, Pending))

\* C9 amended: the requirements that must match the pending version are those of
\* the in-workspace dependencies of every kind, development included, declared by
\* a candidate; dependencies on packages outside the workspace are not compared.
C9_EveryKind ==
    ret.fn = "check_version_consistency"
        => (ret.val.ok <=>
                \A p \in Candidates :
                    /\ p.version = Pending
                    /\ \A dep \in DepsOf(p) : InWorkspace(dep) => Matches(dep, Pending))

\* C9 witness: the check failed on a workspace whose only mismatch is the
\* requirement of an in-workspace development dependency of a candidate.
C9_Witness ==
    /\ ret.fn = "check_version_consistency"
    /\ ~ret.val.ok
    /\ \A p \in Candidates :
        /\ p.version = Pending
        /\ \A dep \in DepsOf(p) : (InWorkspace(dep) /\ dep.kind # "dev") => Matches(dep, Pending)
    /\ \E p \in Candidates : \E dep \in DepsOf(p) : InWorkspace(dep) /\ dep.kind = "dev" /\ ~Matches(dep, Pending)

\* C10: each per-package check goes through all the candidates and prints a
\* violation for exactly the violating ones, once each.
C10_ReportsExactlyViolators ==
    /\ ret.fn = "check_registry_consistency"
        => Reported(ret.val.out) = NamesOf({p \in Candidates : p.publish.some /\ TargetRegistry \notin p.publish.val})
    /\ (ret.fn = "check_dev_dependencies" /\ ~ctx.config.release.val.allow_non_path_dev_dependencies)
        => Reported(ret.val.out) =
              NamesOf({p \in Candidates :
                         \E dep \in DepsOf(p) : dep.kind = "dev" /\ InWorkspace(dep) /\ dep.req.comparators # <<>>})
    /\ ret.fn = "check_version_consistency"
        => Reported(ret.val.out) =
              NamesOf({p \in Candidates :
                         p.version # Pending \/ \E dep \in DepsOf(p) : InWorkspace(dep) /\ ~Matches(dep, Pending)})
    /\ ret.fn \in {"check_registry_consistency", "check_dev_dependencies", "check_version_consistency"}
        => Cardinality({i \in DOMAIN ret.val.out : ret.val.out[i].kind = "bad"}) = Cardinality(Reported(ret.val.out))

\* C10 witness: the version-consistency check reported the two candidates of a
\* workspace, the second one after the first was found inconsistent.
C10_Witness ==
    /\ ret.fn = "check_version_consistency"
    /\ Cardinality(Candidates) = 2
    /\ Reported(ret.val.out) = NamesOf(Candidates)

\* C10 example: root and lib at the pending version, lib requiring another version
\* of root: lib is reported and only lib.
C10_Example ==
    /\ ret.fn = "check_version_consistency"
    /\ Cardinality(Candidates) = 2
    /\ \A p \in Candidates : p.version = Pending
    /\ \E p \in Candidates :
        /\ p.name = "lib"
        /\ \E dep \in DepsOf(p) : dep.name = "root" /\ dep.kind = "normal" /\ ~Matches(dep, Pending)
        /\ Reported(ret.val.out) = {<<"lib", Pending>>}

---------------------------------------------------------------------------
(* The pipeline: what a run does to the outside and how it ends *)

IsPrefix(s, t) == Len(s) <= Len(t) /\ SubSeq(t, 1, Len(s)) = s

\* The calls that change the registry or the GitHub repository
IsRealCall(call) ==
    \/ call.op \in {"create_ref", "create_release", "upload_release_asset"}
    \/ IF call.op = "cargo publish" THEN ~call.dry_run ELSE FALSE

RealCalls(eff) == {i \in DOMAIN eff : IsRealCall(eff[i])}

Passed(messages, step) == \E i \in DOMAIN messages : messages[i] = Message(step, "success")

HasError(messages) == \E i \in DOMAIN messages : messages[i].event = "error"

ValidationMessages(messages) == SelectSeq(messages, LAMBDA m : m.step \in ValidationSteps)

ValidationQueue(queue) == SelectSeq(queue, LAMBDA step : step \in ValidationSteps)

\* The fields of ReleaseContext that the steps fill in
StateFields ==
    {"crates_io_token", "github_token", "github_client", "current_commit", "metadata", "version",
     "prev_version", "changelog", "artifacts", "github_release_tag"}

\* C4: a dry run (no --confirm) never makes a real call: no cargo publish
\* without --dry-run, no tag ref, no release page, no uploaded artifact,
\* whatever the configuration, the tag and release steps included
C4_DryRunMakesNoRealCall == is_dry_run(ctx) => RealCalls(effects) = {}

\* A dry run that went through the tag and release-page steps with artifacts to
\* upload, and ended well
C4_Witness ==
    /\ is_dry_run(ctx)
    /\ pc = "done"
    /\ Passed(log, "CreateTagOnGithub")
    /\ Passed(log, "CreateGithubRelease")
    /\ release_github_config(ctx).val.release_page_upload_artifacts
    /\ artifacts(ctx).ok /\ artifacts(ctx).val # <<>>
    /\ \E i \in DOMAIN effects : effects[i].op = "cargo publish"

\* C5: given the same configuration, workspace and answers, the dry run and the
\* confirmed run have the same validation steps queued, and the messages of the
\* validation steps (started, passed or failed) are the same in both
C5_SameValidation ==
    pc # "start" =>
        /\ twin.ctx.dry_run # ctx.dry_run
        /\ ValidationQueue(twin.steps) = ValidationQueue(steps)
        /\ ValidationMessages(twin.log) = ValidationMessages(log)

\* A confirmed run and its dry twin that passed the first five validation steps
\* and both failed the publish validation
C5_Witness ==
    /\ ~is_dry_run(ctx)
    /\ is_dry_run(twin.ctx)
    /\ pc = "failed"
    /\ twin.pc = "failed"
    /\ \A step \in ValidationSteps \ {"CargoPublish::validate_only"} : Passed(log, step) /\ Passed(twin.log, step)
    /\ log[Len(log)] = Message("CargoPublish::validate_only", "error")
    /\ twin.log[Len(twin.log)] = Message("CargoPublish::validate_only", "error")

\* C6: a run that has failed, or has printed the error of a step, takes no
\* further step; every step leaves the calls already made and the messages
\* already printed in place, and leaves every context field that was filled in
\* as it was
C6_FailFast ==
    [][/\ pc # "failed"
       /\ ~HasError(log)
       /\ IsPrefix(effects, effects')
       /\ IsPrefix(log, log')
       /\ \A f \in StateFields : ctx[f].some => ctx'[f] = ctx[f]]_vars

\* A confirmed run that published for real and then failed to create the tag,
\* the release-page step still queued
C6_Witness ==
    /\ pc = "failed"
    /\ log # <<>> /\ log[Len(log)] = Message("CreateTagOnGithub", "error")
    /\ steps = <<"CreateGithubRelease">>
    /\ \E i \in DOMAIN effects : effects[i].op = "cargo publish" /\ ~effects[i].dry_run /\ effects[i].ok
    /\ ctx.github_release_tag.some

\* The configuration names a custom registry and leaves the version-raise check on
CustomRegistryWithRaiseCheck ==
    /\ ctx.config.release.some
    /\ ctx.config.release.val.registry.some
    /\ ctx.config.release.val.check_version_raised

\* C13: a run whose release configuration names a custom registry while
\* check_version_raised is enabled has failed as soon as it has started: no
\* step was queued or started and no external call was made.
C13_CustomRegistryAborts ==
    (CustomRegistryWithRaiseCheck /\ pc # "start") =>
        /\ pc = "failed"
        /\ steps = <<>>
        /\ log = <<>>
        /\ effects = <<>>

\* C13 witness: such a run, failed, in confirmed mode
C13_Witness ==
    /\ CustomRegistryWithRaiseCheck
    /\ ~is_dry_run(ctx)
    /\ pc = "failed"

\* The executor of the run was given a configuration that passed validation and
\* holds a release section, so that build_steps returned a pipeline
Built == pc # "start" /\ Config_validate(ctx.config).ok /\ ctx.config.release.some

\* The steps of the pipeline: those the executor took from the queue and those still in it
BuiltSteps == {log[i].step : i \in DOMAIN log} \cup Range(steps)

\* The release.github section is set and its flag of the given name is on
GithubFlag(name) ==
    IF ctx.config.release.val.github.some THEN ctx.config.release.val.github.val[name] ELSE FALSE

\* C16: every pipeline holds the publish validation, and holds the real
\* publish iff the run is neither a dry run nor a no-publish run.
C16_PublishSteps ==
    Built =>
        /\ "CargoPublish::validate_only" \in BuiltSteps
        /\ "CargoPublish::new" \in BuiltSteps <=> (~is_dry_run(ctx) /\ ~is_nopublish(ctx))

\* C16 witness: a confirmed no-publish run whose pipeline has the publish
\* validation and no real publish
C16_Witness ==
    /\ Built
    /\ ~is_dry_run(ctx)
    /\ is_nopublish(ctx)
    /\ "CargoPublish::validate_only" \in BuiltSteps
    /\ "CargoPublish::new" \notin BuiltSteps

\* C17: the optional steps are in the pipeline iff their section is set or
\* their flag of release.github is on.
C17_OptionalSteps ==
    Built =>
        /\ "CollectArtifacts" \in BuiltSteps <=> ctx.config.artifacts.some
        /\ "CaptureChangelog" \in BuiltSteps <=> ctx.config.changelog.some
        /\ "ValidateCommitPushedToGithub" \in BuiltSteps <=> GithubFlag("check_commit_pushed")
        /\ "CreateTagOnGithub" \in BuiltSteps <=> GithubFlag("create_tag")
        /\ "CreateGithubRelease" \in BuiltSteps <=> GithubFlag("create_release_page")

\* C17 witness: release.github is set with create_tag and without
\* check_commit_pushed, and the pipeline has the tag step only
C17_Witness ==
    /\ Built
    /\ ctx.config.release.val.github.some
    /\ "CreateTagOnGithub" \in BuiltSteps
    /\ "ValidateCommitPushedToGithub" \notin BuiltSteps

\* C17 example: a pipeline without the changelog section and without release.github
C17_Example ==
    /\ Built
    /\ ~ctx.config.changelog.some
    /\ ~ctx.config.release.val.github.some
    /\ BuiltSteps \subseteq {"Init", "CollectArtifacts", "VaidateVersion", "CargoPublish::validate_only", "CargoPublish::new"}

\* The candidate p went through a successful dry-run publish among the calls eff
Validated(p, eff) ==
    \E j \in DOMAIN eff :
        /\ eff[j].op = "cargo publish"
        /\ eff[j].manifest = p.name
        /\ eff[j].dry_run
        /\ eff[j].ok

\* C18: a step that invokes cargo publish, with or without --dry-run, starts
\* after the version validation has succeeded; a step that publishes for real
\* starts after the publish validation has succeeded, every candidate without
\* a bin target having gone through a successful dry-run publish.
C18_ValidationBeforePublish ==
    [][\A i \in (Len(effects) + 1)..Len(effects') :
          effects'[i].op = "cargo publish" =>
              /\ Passed(log, "VaidateVersion")
              /\ ~effects'[i].dry_run =>
                    /\ Passed(log, "CargoPublish::validate_only")
                    /\ \A p \in Range(ordered_packages_to_publish(ctx).val) :
                          has_bin_target(p) \/ Validated(p, effects)]_vars

\* C18 witness: two candidates were published for real, both validated before
C18_Witness ==
    /\ Cardinality({i \in DOMAIN effects : effects[i].op = "cargo publish" /\ ~effects[i].dry_run}) = 2
    /\ Cardinality({i \in DOMAIN effects : effects[i].op = "cargo publish" /\ effects[i].dry_run /\ effects[i].ok}) = 2
    /\ Passed(log, "VaidateVersion")
    /\ Passed(log, "CargoPublish::validate_only")

\* The positions of the real publishes and of the waits among the calls of the run
RealPublishes == {i \in DOMAIN effects : effects[i].op = "cargo publish" /\ ~effects[i].dry_run}

Waits == {i \in DOMAIN effects : effects[i].op = "sleep"}

\* C19: in a real publish the call right before a publish is a wait iff the
\* publish is not the first one; every wait lasts the configured interval and
\* is followed at once by a publish, so none follows the last; when the step
\* succeeds the n candidates were published with n-1 waits.
C19_WaitsBetweenPublishes ==
    /\ \A i \in RealPublishes : (i - 1 \in Waits) <=> (\E j \in RealPublishes : j < i)
    /\ \A w \in Waits :
          /\ w + 1 \in RealPublishes
          /\ effects[w].seconds = ctx.config.release.val.publish_interval_seconds
    /\ Passed(log, "CargoPublish::new") =>
          /\ Cardinality(RealPublishes) = Len(ordered_packages_to_publish(ctx).val)
          /\ Cardinality(Waits) = Cardinality(RealPublishes) - 1

\* C19 witness: three candidates published with two waits of a configured
\* interval that is not the default
C19_Witness ==
    /\ Passed(log, "CargoPublish::new")
    /\ Cardinality(RealPublishes) = 3
    /\ Cardinality(Waits) = 2
    /\ \A w \in Waits : effects[w].seconds # default_publish_interval_seconds

\* C19 example: a single candidate published without any wait
C19_Example ==
    /\ Passed(log, "CargoPublish::new")
    /\ Cardinality(RealPublishes) = 1
    /\ Waits = {}

\* The packages a real publish was invoked for, in the order of the invocations
Attempted ==
    LET calls == SelectSeq(effects, LAMBDA call : IsRealCall(call) /\ call.op = "cargo publish")
    IN [k \in DOMAIN calls |-> calls[k].manifest]

\* The publish order of the run, by package name
PublishOrder ==
    LET ordered_packages == ordered_packages_to_publish(ctx).val
    IN [k \in DOMAIN ordered_packages |-> ordered_packages[k].name]

\* C20: the packages cargo was invoked for without --dry-run are a prefix of
\* the publish order, each one once; a failed publish is the last call the run
\* makes (no later candidate, no retry, nothing undone), it fails the run, and
\* every publish before it succeeded.
C20_PublishedPrefix ==
    RealPublishes # {} =>
        /\ IsPrefix(Attempted, PublishOrder)
        /\ NoDuplicates(Attempted)
        /\ \A i \in RealPublishes :
              IF effects[i].ok THEN TRUE
              ELSE /\ i = Len(effects)
                   /\ pc = "failed"
                   /\ \A j \in RealPublishes : j < i => effects[j].ok

\* C20 witness: of three candidates the first was published and the second
\* failed; the third was not tried
C20_Witness ==
    /\ Len(Attempted) = 2
    /\ Len(PublishOrder) = 3
    /\ \E i, j \in RealPublishes : i < j /\ effects[i].ok /\ ~effects[j].ok
    /\ pc = "failed"

---------------------------------------------------------------------------
(* Properties of the single checks of the version validator *)

\* C11: with the version-raise check enabled and a previously published
\* version of the root package returned by the registry, the check passes iff
\* the pending version is strictly greater than it; an equal or lower pending
\* version is an error.
C11_RaisedIffGreater ==
    (RaiseChecked /\ LastReleased.ok /\ LastReleased.val.some) =>
        /\ ret.val.ok <=> Pending > LastReleased.val.val
        /\ ret.val.ok => ret.val.ctx.prev_version = Some(Some(LastReleased.val.val))

\* C11 witness: the pending version equals the published one and the check fails
C11_Witness ==
    /\ RaiseChecked
    /\ LastReleased = Ok(Some(Pending))
    /\ ~ret.val.ok

\* C12: with the check enabled and no previous version found, the check
\* succeeds and prev_version becomes Some(None); with the check disabled
\* prev_version stays None; the two values differ.
C12_AbsenceRecorded ==
    /\ (RaiseChecked /\ LastReleased = Ok(None)) => ret.val.ok /\ ret.val.ctx.prev_version = Some(None)
    /\ RaiseSkipped => ret.val.ok /\ ret.val.ctx.prev_version = None /\ ret.val.eff = <<>>
    /\ Some(None) # None

\* C12 witness: the lookup found nothing and the check passed
C12_Witness ==
    /\ RaiseChecked
    /\ LastReleased = Ok(None)
    /\ ret.val.ok
    /\ ctx.prev_version = None

\* C14: the registry-consistency check passes iff every publish candidate has
\* no allow-set or an allow-set that holds the target registry, which is the
\* configured registry or crates-io when none is configured.
C14_RegistryConsistency ==
    ret.fn = "check_registry_consistency" =>
        (ret.val.ok <=> \A p \in Candidates : ~p.publish.some \/ TargetRegistry \in p.publish.val)

\* C14 witness: the check passed for two candidates and a custom registry, one
\* candidate without an allow-set and one whose allow-set names the registry
C14_Witness ==
    /\ ret.fn = "check_registry_consistency"
    /\ ret.val.ok
    /\ ctx.config.release.val.registry.some
    /\ \E p \in Candidates : ~p.publish.some
    /\ \E p \in Candidates : p.publish.some /\ TargetRegistry \in p.publish.val

\* The dev-dependency check was applied with the check enabled in the configuration
DevDepsChecked == ret.fn = "check_dev_dependencies" /\ ~ctx.config.release.val.allow_non_path_dev_dependencies

\* A development dependency on a workspace member that carries a version requirement
BrokenDevDep(dep) == dep.kind = "dev" /\ InWorkspace(dep) /\ dep.req.comparators # <<>>

\* C15: the enabled dev-dependency check fails iff a publish candidate has a
\* development dependency on a workspace member with a non-empty requirement;
\* the dependencies it names in its report are of that form only, so an empty
\* requirement, another kind or a package outside the workspace is never flagged.
C15_DevDependencies ==
    DevDepsChecked =>
        /\ ~ret.val.ok <=> \E p \in Candidates : \E dep \in DepsOf(p) : BrokenDevDep(dep)
        /\ \A i \in DOMAIN ret.val.out : \A p \in Candidates :
              (ret.val.out[i].kind = "bad" /\ ret.val.out[i].pkg = full_package_name(p)) =>
                  Range(ret.val.out[i].deps) = {dep.name : dep \in {d \in DepsOf(p) : BrokenDevDep(d)}}

\* C15 witness: the enabled check passed although a candidate has a development
\* dependency on a workspace member, its requirement being empty
C15_Witness ==
    /\ DevDepsChecked
    /\ ret.val.ok
    /\ \E p \in Candidates : \E dep \in DepsOf(p) : dep.kind = "dev" /\ InWorkspace(dep) /\ dep.req.comparators = <<>>

\* C15 example: the enabled check passed over a development dependency with a
\* requirement on a package outside the workspace
C15_Example ==
    /\ DevDepsChecked
    /\ ret.val.ok
    /\ \E p \in Candidates : \E dep \in DepsOf(p) : dep.kind = "dev" /\ ~InWorkspace(dep) /\ dep.req.comparators # <<>>

---------------------------------------------------------------------------
(* Further properties of the pipeline *)

\* The positions of the dry-run publishes among the calls of the run
DryPublishes == {i \in DOMAIN effects : effects[i].op = "cargo publish" /\ effects[i].dry_run}

\* The packages cargo publish --dry-run was invoked for, in the order of the invocations
DryAttempted ==
    LET calls == SelectSeq(effects, LAMBDA call : call.op = "cargo publish" /\ ~IsRealCall(call))
    IN [k \in DOMAIN calls |-> calls[k].manifest]

\* The candidates without a bin target, in publish order, by name
NonBinOrder ==
    LET kept == SelectSeq(ordered_packages_to_publish(ctx).val, LAMBDA p : ~has_bin_target(p))
    IN [k \in DOMAIN kept |-> kept[k].name]

\* C21: the validating pass invokes cargo publish --dry-run once for each
\* candidate without a bin target, in publish order, and for no candidate with
\* one; the pass succeeds iff all the invocations succeed and stops at the
\* first that fails; no wait is made in it: there is none in a dry run, and in
\* any run a wait stands between two real publishes.
C21_ValidationPass ==
    /\ DryPublishes # {} =>
          /\ IsPrefix(DryAttempted, NonBinOrder)
          /\ \A i \in DryPublishes : ~effects[i].ok =>
                /\ i = Len(effects)
                /\ log[Len(log)] = Message("CargoPublish::validate_only", "error")
    /\ Passed(log, "CargoPublish::validate_only") =>
          /\ DryAttempted = NonBinOrder
          /\ \A i \in DryPublishes : effects[i].ok
    /\ is_dry_run(ctx) => Waits = {}
    /\ \A w \in Waits : w - 1 \in RealPublishes /\ w + 1 \in RealPublishes

\* C21 witness: the pass succeeded over two candidates, the root crate with a
\* bin target skipped and the other one validated
C21_Witness ==
    /\ Passed(log, "CargoPublish::validate_only")
    /\ Len(PublishOrder) = 2
    /\ DryAttempted = <<"lib">>
    /\ \E p \in Range(ordered_packages_to_publish(ctx).val) : has_bin_target(p)

---------------------------------------------------------------------------
(* Properties of the accessors of ReleaseContext *)

\* The fields of the context that are unset
Unset == {f \in FilledFields : ~ctx[f].some}

\* The error each accessor gives for its field when unset
ErrorOf ==
    [current_commit |-> "Current commit is queried yet",
     metadata |-> "Cargo metadata is not yet queried",
     version |-> "Pending version is not queried yet",
     github_client |-> "GitHub client is not initialized",
     artifacts |-> "Artifacts list is empty",
     github_release_tag |-> "GitHub tag is not created yet"]

\* The fields a step reads before its first external call
ReadsFirst ==
    [CaptureChangelog |-> IF ret.fn = "CaptureChangelog" /\ ret.arg.file.ok THEN {"version"} ELSE {},
     ValidateCommitPushedToGithub |-> {"current_commit", "github_client"},
     VaidateVersion |-> {"version", "metadata"},
     CargoPublish_validate_only |-> {"metadata"},
     CargoPublish_new |-> IF is_dry_run(ctx) THEN {} ELSE {"metadata"},
     CreateTagOnGithub |-> {"version", "current_commit"} \cup (IF is_dry_run(ctx) THEN {} ELSE {"github_client"}),
     CreateGithubRelease |-> {"github_release_tag", "version"} \cup (IF is_dry_run(ctx) THEN {} ELSE {"github_client"})]

StepKey ==
    [CaptureChangelog |-> "CaptureChangelog",
     ValidateCommitPushedToGithub |-> "ValidateCommitPushedToGithub",
     VaidateVersion |-> "VaidateVersion",
     CargoPublish_validate_only |-> "CargoPublish::validate_only",
     CargoPublish_new |-> "CargoPublish::new",
     CreateTagOnGithub |-> "CreateTagOnGithub",
     CreateGithubRelease |-> "CreateGithubRelease"]

\* The release page was created and its artifacts are to be uploaded
UploadsArtifacts ==
    /\ ret.fn = "CreateGithubRelease"
    /\ ret.arg.created
    /\ ~is_dry_run(ctx)
    /\ ctx.config.release.val.github.val.release_page_upload_artifacts
    /\ ReadsFirst.CreateGithubRelease \cap Unset = {}

\* C22: each accessor returns its field when set and an error of its own,
\* without a value, when unset; a turn of a step that reads an unset field
\* fails, before any external call, with the error of an unset field it reads;
\* the release-page step, which reads the artifacts after it created the page,
\* fails with the error of the artifacts when they are unset.
C22_UnsetFieldIsAnError ==
    /\ ret.fn = "accessors" =>
          \A f \in FilledFields :
              IF ctx[f].some THEN ret.val[f] = Ok(ctx[f].val)
              ELSE ret.val[f] = Err(ErrorOf[f])
    /\ \A k \in DOMAIN StepKey :
          (ret.fn = StepKey[k] /\ ReadsFirst[k] \cap Unset # {}) =>
              /\ ~ret.val.ok
              /\ ret.val.eff = <<>>
              /\ \E f \in ReadsFirst[k] \cap Unset : ret.val.err = ErrorOf[f]
    /\ (UploadsArtifacts /\ "artifacts" \in Unset) =>
          ~ret.val.ok /\ ret.val.err = ErrorOf.artifacts

\* C22 witness: the release-page step failed on the unset artifacts, every
\* other field being set
C22_Witness ==
    /\ UploadsArtifacts
    /\ Unset = {"artifacts"}
    /\ ~ret.val.ok

\* C22 example: the tag step of a run with no field set failed on the version
C22_Example ==
    /\ ret.fn = "CreateTagOnGithub"
    /\ Unset = FilledFields
    /\ ~ret.val.ok
    /\ ret.val.err = ErrorOf.version

\* The errors of the accessors of unset fields
PreconditionErrors == {ErrorOf[f] : f \in FilledFields}

\* The step that fills each field
Setter ==
    [current_commit |-> "Init", metadata |-> "Init", version |-> "Init", github_client |-> "Init",
     artifacts |-> "CollectArtifacts", github_release_tag |-> "CreateTagOnGithub"]

\* The fields the step at the head of the queue reads, under the configuration and the mode of the run
Reads(step) ==
    LET real == IF is_dry_run(ctx) THEN {} ELSE {"github_client"}
    IN CASE step = "CaptureChangelog" ->
                IF ctx.config.changelog.val.start_marker_template.some THEN {"version"} ELSE {}
         [] step = "ValidateCommitPushedToGithub" -> {"current_commit", "github_client"}
         [] step = "VaidateVersion" -> {"version", "metadata"}
         [] step \in {"CargoPublish::validate_only", "CargoPublish::new"} -> {"metadata"}
         [] step = "CreateTagOnGithub" -> {"version", "current_commit"} \cup real
         [] step = "CreateGithubRelease" ->
                {"github_release_tag", "version"} \cup real
                    \cup (IF ~is_dry_run(ctx) /\ ctx.config.release.val.github.val.release_page_upload_artifacts
                          THEN {"artifacts"} ELSE {})
         [] OTHER -> {}

\* What the turn of the step at the head of the queue can return, over the
\* answers of the collaborators
PossibleTurns ==
    LET step == Head(steps)
    IN CASE step = "Init" ->
                {ReleaseExecutor_turn(Init_start_message(ctx), Init_execute(ctx, ans), Init_success_message(ctx)) :
                    ans \in InitAnswers}
         [] step = "CollectArtifacts" ->
                {ReleaseExecutor_turn(CollectArtifacts_start_message(ctx), CollectArtifacts_execute(ctx, ans),
                                      CollectArtifacts_success_message(ctx)) : ans \in CollectArtifactsAnswers}
         [] step = "CaptureChangelog" ->
                {ReleaseExecutor_turn(CaptureChangelog_start_message(ctx), CaptureChangelog_execute(ctx, ans),
                                      CaptureChangelog_success_message(ctx)) : ans \in CaptureChangelogAnswers(ctx)}
         [] step = "ValidateCommitPushedToGithub" ->
                {ReleaseExecutor_turn(ValidateCommitPushedToGithub_start_message(ctx),
                                      ValidateCommitPushedToGithub_execute(ctx, ans),
                                      ValidateCommitPushedToGithub_success_message(ctx)) :
                    ans \in ValidateCommitPushedToGithubAnswers}
         [] step = "VaidateVersion" ->
                {ReleaseExecutor_turn(VaidateVersion_start_message(ctx), VaidateVersion_execute(ctx, ans),
                                      VaidateVersion_success_message(ctx)) : ans \in VaidateVersion_answers(ctx)}
         [] step = "CargoPublish::validate_only" ->
                {ReleaseExecutor_turn(CargoPublish_start_message(TRUE, ctx), CargoPublish_execute(TRUE, ctx, ans),
                                      CargoPublish_success_message(TRUE, ctx)) : ans \in CargoPublishAnswers(TRUE, ctx)}
         [] step = "CargoPublish::new" ->
                {ReleaseExecutor_turn(CargoPublish_start_message(FALSE, ctx), CargoPublish_execute(FALSE, ctx, ans),
                                      CargoPublish_success_message(FALSE, ctx)) : ans \in CargoPublishAnswers(FALSE, ctx)}
         [] step = "CreateTagOnGithub" ->
                {ReleaseExecutor_turn(CreateTagOnGithub_start_message(ctx), CreateTagOnGithub_execute(ctx, ans),
                                      CreateTagOnGithub_success_message(ctx)) : ans \in CreateTagOnGithubAnswers}
         [] step = "CreateGithubRelease" ->
                {ReleaseExecutor_turn(CreateGithubRelease_start_message(ctx), CreateGithubRelease_execute(ctx, ans),
                                      CreateGithubRelease_success_message(ctx)) : ans \in CreateGithubReleaseAnswers(ctx)}

\* C23: in a run whose configuration was accepted, whatever the flags, every
\* field the next step reads is set and the step that fills it has succeeded
\* before; whatever the collaborators answer, the step does not fail with the
\* error of an unset field.
C23_NoPreconditionError ==
    (pc = "running" /\ steps # <<>>) =>
        /\ \A f \in Reads(Head(steps)) : ctx[f].some /\ Passed(log, Setter[f])
        /\ \A t \in PossibleTurns : t.ok \/ t.err \notin PreconditionErrors

\* C23 witness: a confirmed run about to create the release page and upload
\* the artifacts, the tag, the client and the artifacts all set
C23_Witness ==
    /\ pc = "running"
    /\ steps # <<>> /\ Head(steps) = "CreateGithubRelease"
    /\ Reads("CreateGithubRelease") = {"github_release_tag", "version", "github_client", "artifacts"}
    /\ \E t \in PossibleTurns : t.ok

\* The release section is missing
ReleaseMissing == ~ctx.config.release.some

\* release.github is set without the section or the flag it depends on
GithubReleaseMisconfigured ==
    /\ ctx.config.release.some
    /\ ctx.config.release.val.github.some
    /\ \/ ~ctx.config.github.some
       \/ ctx.config.release.val.github.val.release_page_upload_artifacts /\ ~ctx.config.artifacts.some
       \/ ctx.config.release.val.github.val.create_release_page /\ ~ctx.config.release.val.github.val.create_tag

\* C24: a run whose configuration has no release section, or a release.github
\* part without the github section, with the upload of artifacts and no
\* artifacts section, or with the release page and no tag, has failed as soon
\* as it has started: no step was started, no call was made, no field was set.
C24_ConfigErrorBeforeSteps ==
    ((ReleaseMissing \/ GithubReleaseMisconfigured) /\ pc # "start") =>
        /\ pc = "failed"
        /\ log = <<>>
        /\ effects = <<>>
        /\ \A f \in StateFields : ~ctx[f].some

\* C24 witness: a confirmed run without release section has failed
C24_Witness ==
    /\ ReleaseMissing
    /\ ~is_dry_run(ctx)
    /\ pc = "failed"
    /\ log = <<>>

\* C24 example: a run asking for a release page without the tag has failed
C24_Example ==
    /\ GithubReleaseMisconfigured
    /\ ctx.config.github.some
    /\ ctx.config.artifacts.some
    /\ pc = "failed"
    /\ log = <<>>

\* The calls of the given operation that succeeded
Succeeded(op) == {i \in DOMAIN effects : effects[i].op = op /\ effects[i].ok}

\* C25: a confirmed no-publish run never invokes a real publish, and still
\* validates the publish with --dry-run; its tag step, when it succeeds, has
\* created the ref of the tag it stored, and its release-page step, when it
\* succeeds, has created the page for that tag and uploaded every collected
\* artifact if the upload is configured.
C25_NoPublishSkipsPublishOnly ==
    (~is_dry_run(ctx) /\ is_nopublish(ctx)) =>
        /\ RealPublishes = {}
        /\ "CargoPublish::new" \notin BuiltSteps
        /\ Passed(log, "CreateTagOnGithub") =>
              \E i \in Succeeded("create_ref") : effects[i].tag = ctx.github_release_tag.val
        /\ Passed(log, "CreateGithubRelease") =>
              /\ \E i \in Succeeded("create_release") : effects[i].tag = ctx.github_release_tag.val
              /\ ctx.config.release.val.github.val.release_page_upload_artifacts =>
                    \A a \in Range(ctx.artifacts.val) :
                        \E i \in Succeeded("upload_release_asset") : effects[i].file = a

\* C25 witness: a confirmed no-publish run ended with the tag created, the
\* page created and an artifact uploaded, after its dry-run publishes
C25_Witness ==
    /\ ~is_dry_run(ctx) /\ is_nopublish(ctx)
    /\ pc = "done"
    /\ Succeeded("create_ref") # {}
    /\ Succeeded("create_release") # {}
    /\ Succeeded("upload_release_asset") # {}
    /\ DryPublishes # {}
    /\ RealPublishes = {}

---------------------------------------------------------------------------
(* Properties of the changelog capture *)

\* The file the step read
ChangelogFile == ret.arg.file.val

\* The first line of the file that contains the marker, 0 when none does
FirstLineWith(word) ==
    LET holds(i) == RenderedMarker(word, ctx.version.val) \in ChangelogFile[i].marks
        found == {i \in DOMAIN ChangelogFile : holds(i)}
    IN IF found = {} THEN 0 ELSE CHOOSE i \in found : \A j \in found : i <= j

BeginLine == FirstLineWith("begin ")

EndLine == FirstLineWith("end ")

\* The step was applied to a file that has both markers
Marked == ret.fn = "CaptureChangelog::execute" /\ BeginLine > 0 /\ EndLine > 0

\* C26: on a file with both markers: if the first end-marker line is right
\* after the first begin-marker line the step fails unless allow_empty_changelog,
\* and then captures the empty text; if it is not after the begin-marker line
\* (before it, or the same line) the step fails whatever the option; otherwise
\* the step captures the lines strictly between the two.
C26_MarkedChangelog ==
    Marked =>
        IF EndLine = BeginLine + 1
        THEN IF ctx.config.changelog.val.allow_empty_changelog
             THEN ret.val.ok /\ ret.val.ctx.changelog = Some(<<>>)
             ELSE ~ret.val.ok
        ELSE IF EndLine <= BeginLine
             THEN ~ret.val.ok
             ELSE /\ ret.val.ok
                  /\ ret.val.ctx.changelog.some
                  /\ LET captured == ret.val.ctx.changelog.val
                     IN /\ Len(captured) = EndLine - BeginLine - 1
                        /\ \A k \in DOMAIN captured : captured[k] = ChangelogFile[BeginLine + k]

\* C26 witness: two lines were captured from between the markers
C26_Witness ==
    /\ Marked
    /\ ret.val.ok
    /\ EndLine = BeginLine + 3
    /\ Len(ret.val.ctx.changelog.val) = 2

\* C26 example: both markers on one line, the empty changelog allowed: the step failed
C26_Example ==
    /\ Marked
    /\ EndLine = BeginLine
    /\ ctx.config.changelog.val.allow_empty_changelog
    /\ ~ret.val.ok

---------------------------------------------------------------------------
(* Further properties of the publish order *)

\* C27: for every workspace graph, with or without cycles, sort_workspace
\* returns Ok with a list that holds every workspace member once and no other
\* package.
C27_SortIsPermutationOfMembers ==
    ret.fn = "sort_workspace" =>
        /\ ret.val.ok
        /\ Range(ret.val.val) = Members
        /\ NoDuplicates(ret.val.val)
        /\ Len(ret.val.val) = Cardinality(Members)

\* C27 witness: a workspace in which every member is on a dependency cycle,
\* with a package outside the workspace, was sorted
C27_Witness ==
    /\ ret.fn = "sort_workspace"
    /\ \A a \in Members : \E b \in Members : <<a, b>> \in MemberEdges /\ <<b, a>> \in MemberEdges
    /\ \E p \in Range(TheMetadata.packages) : p.id \notin Members
    /\ ret.val.ok
    /\ Len(ret.val.val) = Cardinality(Members)

\* The dependencies of the member id that are members, in the order the resolve node declares them
MemberDeps(id) ==
    LET node == CHOOSE n \in Range(TheMetadata.resolve.val.nodes) : n.id = id
    IN SelectSeq(node.dependencies, LAMBDA d : d \in Members)

\* Depth-first traversal with an explicit stack, the top frame first: a frame
\* is a member and the dependencies of it still to visit; a member is appended
\* to out when its frame has none left
RECURSIVE Traverse(_, _, _)
Traverse(stack, visited, out) ==
    IF stack = <<>> THEN [visited |-> visited, out |-> out]
    ELSE LET top == Head(stack)
         IN IF top.todo = <<>> THEN Traverse(Tail(stack), visited, Append(out, top.node))
            ELSE LET d == Head(top.todo)
                     rest == <<[top EXCEPT !.todo = Tail(@)]>> \o Tail(stack)
                 IN IF d \in visited THEN Traverse(rest, visited, out)
                    ELSE Traverse(<<[node |-> d, todo |-> MemberDeps(d)]>> \o rest, visited \cup {d}, out)

\* The traversal started from each member in listing order that is not visited yet
RECURSIVE PostOrderFrom(_, _, _)
PostOrderFrom(listing, visited, out) ==
    IF listing = <<>> THEN out
    ELSE IF Head(listing) \in visited THEN PostOrderFrom(Tail(listing), visited, out)
    ELSE LET done == Traverse(<<[node |-> Head(listing), todo |-> MemberDeps(Head(listing))]>>,
                              visited \cup {Head(listing)}, out)
         IN PostOrderFrom(Tail(listing), done.visited, done.out)

\* The metadata without the packages outside the workspace and the edges to them
MembersOnly ==
    LET nodes == SelectSeq(TheMetadata.resolve.val.nodes, LAMBDA n : n.id \in Members)
    IN [TheMetadata EXCEPT
          !.packages = SelectSeq(@, LAMBDA p : p.id \in Members),
          !.resolve = Some([nodes |-> [i \in DOMAIN nodes |->
                                         [nodes[i] EXCEPT !.dependencies = SelectSeq(@, LAMBDA d : d \in Members)]]])]

\* C28: the list sort_workspace returns is the depth-first post-order that
\* starts from the members in listing order and visits the in-workspace
\* dependencies of a member in declared order before appending the member;
\* it is the list returned for the same workspace without the packages
\* outside of it, and the one a second call returns.
C28_DepthFirstPostOrder ==
    ret.fn = "sort_workspace" =>
        /\ ret.val = Ok(PostOrderFrom(TheMetadata.workspace_members, {}, <<>>))
        /\ ret.val = sort_workspace(MembersOnly)
        /\ ret.val = sort_workspace(TheMetadata)

\* C28 witness: a member with two in-workspace dependencies declared in the
\* order opposite to the listing was sorted: the one declared first comes first
C28_Witness ==
    /\ ret.fn = "sort_workspace"
    /\ \E a \in Members :
          /\ Len(MemberDeps(a)) = 2
          /\ Position(TheMetadata.workspace_members, MemberDeps(a)[1])
                > Position(TheMetadata.workspace_members, MemberDeps(a)[2])
          /\ Position(ret.val.val, MemberDeps(a)[1]) < Position(ret.val.val, MemberDeps(a)[2])

\* C28 example: a workspace whose members depend on each other and on a package
\* outside of it was sorted, and the list is the one of the workspace alone
C28_Example ==
    /\ ret.fn = "sort_workspace"
    /\ MemberEdges # {}
    /\ \E n \in Range(TheMetadata.resolve.val.nodes) :
          n.id \in Members /\ \E d \in Range(n.dependencies) : d \notin Members
    /\ ret.val = sort_workspace(MembersOnly)

\* The pairs joined by a path of at most n edges of E
RECURSIVE PathsUpTo(_, _)
PathsUpTo(E, n) ==
    IF n <= 1 THEN E
    ELSE LET shorter == PathsUpTo(E, n - 1)
         IN shorter \cup {<<p[1][1], p[2][2]>> : p \in {q \in shorter \X E : q[1][2] = q[2][1]}}

\* A depends on B through a chain of workspace members
DependsOn == PathsUpTo(MemberEdges, Cardinality(Members))

\* C29: in a workspace without cycle, a candidate that depends on another
\* candidate, directly or through workspace members that may not be candidates,
\* comes after it in the list of ordered_packages_to_publish, and no member
\* that is not a candidate is in the list.
C29_OrderThroughUnpublished ==
    (ret.fn = "ordered_packages_to_publish" /\ ~HasCycle(Members, MemberEdges)) =>
        /\ ret.val.ok
        /\ \A e \in DependsOn :
              (e[1] \in CandidateIds /\ e[2] \in CandidateIds) =>
                  /\ Position(IdsOf(ret.val.val), e[2]) > 0
                  /\ Position(IdsOf(ret.val.val), e[2]) < Position(IdsOf(ret.val.val), e[1])
        /\ \A id \in Members \ CandidateIds : ~Contains(IdsOf(ret.val.val), id)

\* C29 witness: candidate a depends on candidate c only through b, which is
\* not published; a is listed before c among the members and comes after it
\* in the publish list, b being left out
C29_Witness ==
    /\ ret.fn = "ordered_packages_to_publish"
    /\ ~HasCycle(Members, MemberEdges)
    /\ \E a, b, c \in Members :
          /\ <<a, b>> \in MemberEdges /\ <<b, c>> \in MemberEdges /\ <<a, c>> \notin MemberEdges
          /\ a \in CandidateIds /\ c \in CandidateIds /\ b \notin CandidateIds
          /\ Position(TheMetadata.workspace_members, a) < Position(TheMetadata.workspace_members, c)
          /\ IdsOf(ret.val.val) = <<c, a>>

---------------------------------------------------------------------------
(* Properties of the version and the metadata of the context *)

\* The version of the context as the default templates render it
TagOf(c) == <<Rendered("v", <<>>), Rendered(ToString(c.version.val), <<>>)>>

ReleaseNameOf(c) ==
    <<Rendered(c.config.workspace.root_crate, <<>>), Rendered(" v", <<>>), Rendered(ToString(c.version.val), <<>>)>>

\* What the calls and the verdicts of a run say of the version they used: every
\* tag and every release carries the version of context c, and a validation
\* that passed found every member at it and the published version below it
UsedVersionOf(c, eff, messages) ==
    /\ \A i \in DOMAIN eff :
          /\ eff[i].op = "create_ref" => eff[i].tag = TagOf(c)
          /\ eff[i].op = "create_release" => (eff[i].tag = TagOf(c) /\ eff[i].name = ReleaseNameOf(c))
    /\ (\E i \in DOMAIN messages : messages[i] = Message("VaidateVersion", "success")) =>
          /\ \A i \in DOMAIN c.metadata.val.packages :
                Contains(c.metadata.val.workspace_members, c.metadata.val.packages[i].id) =>
                    c.metadata.val.packages[i].version = c.version.val
          /\ (c.prev_version.some /\ c.prev_version.val.some) => c.prev_version.val.val < c.version.val

\* C30: only the Init step writes the version and the metadata of the context,
\* and it runs while both are unset; every other step of every pipeline leaves
\* the two fields as they are, so the tag, the release name and the validation
\* all carry the version the context holds after the step.
C30_VersionAndMetadataWrittenByInit ==
    [][/\ AtStep("Init") => (~ctx.version.some /\ ~ctx.metadata.some)
       /\ ~AtStep("Init") => (ctx'.version = ctx.version /\ ctx'.metadata = ctx.metadata)
       /\ UsedVersionOf(ctx', effects', log')]_vars

\* C30 witness: a confirmed run is over in which the validation passed against
\* a published version and the tag and the release were created
C30_Witness ==
    /\ pc = "done"
    /\ ctx.version.some /\ ctx.metadata.some
    /\ ctx.prev_version = Some(Some(ctx.version.val - 1))
    /\ \E i \in DOMAIN log : log[i] = Message("VaidateVersion", "success")
    /\ \E i, j \in DOMAIN effects :
          /\ i < j
          /\ effects[i].op = "create_ref" /\ effects[i].ok /\ effects[i].tag = TagOf(ctx)
          /\ effects[j].op = "create_release" /\ effects[j].ok /\ effects[j].name = ReleaseNameOf(ctx)

---------------------------------------------------------------------------
(* Properties of the tag and the release page *)

\* The steps of the pipeline in the order of the queue: those taken, then those left
\* (a step whose start message failed left an error without a start)
StepsInOrder ==
    LET taken(i) == \/ log[i].event = "start"
                    \/ log[i].event = "error" /\ (i = 1 \/ log[i - 1] # Message(log[i].step, "start"))
    IN SelectSeq([i \in DOMAIN log |-> IF taken(i) THEN log[i].step ELSE ""], LAMBDA s : s # "") \o steps

\* C31: a release is created on GitHub only once the tag step of the run has
\* succeeded and stored the tag, the release is created for the stored tag,
\* and in every pipeline of a validated configuration that holds the release
\* step the tag step comes before it.
C31_ReleaseAfterTag ==
    /\ \A i \in DOMAIN effects :
          effects[i].op = "create_release" =>
              /\ ctx.github_release_tag.some
              /\ effects[i].tag = ctx.github_release_tag.val
              /\ \E k \in 1..(i - 1) :
                    effects[k].op = "create_ref" /\ effects[k].ok /\ effects[k].tag = effects[i].tag
              /\ \E m, n \in DOMAIN log :
                    /\ m < n
                    /\ log[m] = Message("CreateTagOnGithub", "success")
                    /\ log[n] = Message("CreateGithubRelease", "start")
    /\ Built =>
          (Contains(StepsInOrder, "CreateGithubRelease") =>
              /\ Contains(StepsInOrder, "CreateTagOnGithub")
              /\ Position(StepsInOrder, "CreateTagOnGithub") < Position(StepsInOrder, "CreateGithubRelease"))

\* C31 witness: the release was created for the tag the tag step stored
C31_Witness ==
    /\ ctx.github_release_tag.some
    /\ \E i \in DOMAIN effects :
          /\ effects[i].op = "create_release"
          /\ effects[i].ok
          /\ effects[i].tag = ctx.github_release_tag.val
    /\ Contains(log, Message("CreateTagOnGithub", "success"))
    /\ Position(StepsInOrder, "CreateTagOnGithub") + 1 = Position(StepsInOrder, "CreateGithubRelease")

---------------------------------------------------------------------------
(* Properties of the await points *)

\* C32: at most one step is executing and at most one cargo publish is in
\* flight; a step starts only after the step before it has succeeded, and
\* cargo is spawned for a package only after the process of the package
\* before it has exited.
C32_OneStepOnePublish ==
    /\ Cardinality(ret.executing) <= 1
    /\ Cardinality(ret.in_flight) <= 1
    /\ \A i \in DOMAIN log :
          (log[i].event = "start" /\ i > 1) => log[i - 1].event = "success"
    /\ \A i, j \in DOMAIN effects :
          (j < i /\ effects[i].op = "spawn" /\ effects[j].op = "spawn") =>
              \E k \in (j + 1)..(i - 1) : effects[k] = [op |-> "exit", manifest |-> effects[j].manifest, ok |-> TRUE]

\* C32 witness: the real publish step is the one step executing and cargo is
\* in flight for its second package, after the exit of the first and the wait
C32_Witness ==
    /\ ret.executing = {"CargoPublish::new"}
    /\ Cardinality(ret.in_flight) = 1
    /\ ret.previously_published
    /\ Len(effects) >= 4
    /\ effects[Len(effects)].op = "spawn"
    /\ effects[Len(effects) - 1].op = "sleep"
    /\ effects[Len(effects) - 2].op = "exit"
    /\ log[Len(log) - 1] = Message("CargoPublish::validate_only", "success")

\* C33: in a dry run the tag step that succeeded has stored the rendered tag
\* without any call to GitHub, so the release step after it finds the tag: its
\* start message and its execute succeed, no "GitHub tag is not created yet".
C33_DryRunTagStored ==
    (ctx.dry_run /\ Contains(log, Message("CreateTagOnGithub", "success"))) =>
        /\ github_release_tag(ctx) = Ok(TagOf(ctx))
        /\ \A i \in DOMAIN effects : effects[i].op \notin {"create_ref", "create_release"}
        /\ CreateGithubRelease_start_message(ctx).ok
        /\ ~Contains(log, Message("CreateGithubRelease", "error"))
        /\ (pc = "running" /\ steps = <<"CreateGithubRelease">>) =>
              \A ans \in CreateGithubReleaseAnswers(ctx) : CreateGithubRelease_execute(ctx, ans).ok

\* C33 witness: a dry run is over whose release step succeeded after the tag
\* step, with no ref created
C33_Witness ==
    /\ ctx.dry_run
    /\ pc = "done"
    /\ Len(log) >= 4
    /\ log[Len(log) - 2] = Message("CreateTagOnGithub", "success")
    /\ log[Len(log)] = Message("CreateGithubRelease", "success")
    /\ ctx.github_release_tag = Some(TagOf(ctx))
    /\ \A i \in DOMAIN effects : effects[i].op # "create_ref"

---------------------------------------------------------------------------
(* Properties of the root crate found by Init *)

\* The packages of the listing Init was given that are named as the root crate
NamedRoot == {i \in DOMAIN ret.arg.packages : ret.arg.packages[i].name = root_crate_name(ctx)}

MemberRoot == {i \in NamedRoot : Contains(ret.arg.workspace_members, ret.arg.packages[i].id)}

\* C34, as claimed: an Init that succeeded stored the version of the workspace
\* member named as the root crate, and Init fails when no member has the name.
C34_VersionOfMemberRoot ==
    ret.fn = "Init::execute" =>
        /\ ret.val.ok => \E i \in MemberRoot : ret.val.ctx.version = Some(ret.arg.packages[i].version)
        /\ MemberRoot = {} => ~ret.val.ok

\* C34, what Init does: it stores the version of the first package of the
\* listing that has the name, member of the workspace or not, and fails only
\* when no package of the listing has it.
C34_VersionOfFirstNamed ==
    ret.fn = "Init::execute" =>
        /\ ret.val.ok <=> NamedRoot # {}
        /\ ret.val.ok =>
              \E i \in NamedRoot :
                  /\ \A j \in NamedRoot : i <= j
                  /\ ret.val.ctx.version = Some(ret.arg.packages[i].version)

\* C34 witness: the root crate is a member at one version, a dependency of the
\* same name is listed before it at another, and Init stored the version of
\* the dependency
C34_Witness ==
    /\ ret.fn = "Init::execute"
    /\ ret.val.ok
    /\ \E i \in MemberRoot : \E j \in NamedRoot \ MemberRoot :
          /\ j < i
          /\ ret.arg.packages[i].version # ret.arg.packages[j].version
          /\ ret.val.ctx.version = Some(ret.arg.packages[j].version)

\* C34 example: no member of the workspace has the name and Init succeeded
C34_Example ==
    /\ ret.fn = "Init::execute"
    /\ MemberRoot = {}
    /\ ret.val.ok

---------------------------------------------------------------------------
(* Properties of the collected artifacts *)

\* The step was applied with check_not_empty set and returned Ok
CollectedWithCheck ==
    /\ ret.fn = "CollectArtifacts::execute"
    /\ artifacts_config(ctx).val.check_not_empty
    /\ ret.val.ok

\* C35, as claimed: with check_not_empty set, a CollectArtifacts that
\* succeeded stored a list of artifacts that is not empty.
C35_StoredListNotEmpty ==
    CollectedWithCheck => (ret.val.ctx.artifacts.some /\ ret.val.ctx.artifacts.val # <<>>)

\* C35, what the step does: with check_not_empty set, a CollectArtifacts that
\* succeeded found an entry in the folder, regular file or not, and stored
\* the paths of the regular files among the entries, in their order.
C35_FolderNotEmpty ==
    CollectedWithCheck =>
        /\ ret.arg.entries.val # <<>>
        /\ LET files == SelectSeq(ret.arg.entries.val, LAMBDA a : a.is_file)
           IN ret.val.ctx.artifacts = Some([i \in DOMAIN files |-> files[i].path])

\* C35 witness: the folder holds sub-folders only, check_not_empty is set, the
\* step succeeded and the list it stored is empty
C35_Witness ==
    /\ CollectedWithCheck
    /\ ret.arg.entries.val # <<>>
    /\ \A i \in DOMAIN ret.arg.entries.val : ~ret.arg.entries.val[i].is_file
    /\ ret.val.ctx.artifacts = Some(<<>>)

====
